---- MODULE Spec2Model ----
(***************************************************************************)
(* A model of the streaming-iterator crate: the advance/get cursor         *)
(* protocol, the Fuse and Chain adapters over their upstream cursors, and  *)
(* the WindowsMut source over a mutable slice, and the adapters Flatten,    *)
(* Take, Skip, SkipWhile, TakeWhile, Filter, Inspect, MapRef and Rev.      *)
(*                                                                         *)
(* Option<T> is modelled as a sequence of length at most one:              *)
(* None is <<>> and Some(x) is <<x>>.                                      *)
(***************************************************************************)
EXTENDS Integers, Sequences, FiniteSets, TLC

VARIABLES fuse, fuseObs, chain, chainObs, win, buf, winPc, winObs,
          cursor, cursorObs

vars == <<fuse, fuseObs, chain, chainObs, win, buf, winPc, winObs,
          cursor, cursorObs>>

fuseVars == <<fuse, fuseObs>>
chainVars == <<chain, chainObs>>
winVars == <<win, buf, winPc, winObs>>
\* cursor is the adapter under study in the specifications of the adapters
\* (Flatten, Take, Skip, ...), cursorObs what its caller has observed
cursorVars == <<cursor, cursorObs>>

None == <<>>
Some(x) == <<x>>
IsNone(o) == o = None
IsSome(o) == o # None
Unwrap(o) == o[1]

Min(x, y) == IF x <= y THEN x ELSE y
Max(x, y) == IF x >= y THEN x ELSE y

(***************************************************************************)
(* Bounds of the model.                                                    *)
(***************************************************************************)
\* number of positions of a scripted upstream (the one before the first
\* advance included)
UpLen == 4
\* number of calls made on a Fuse
MaxFuseCalls == 5
\* largest length of each of the two chained sources
MaxLen == 3
\* largest length of the buffer handed to windows_mut
MaxBuf == 6
\* largest window size requested from windows_mut
MaxSize == 7

\* the element values an upstream of Fuse can hold
Items == {1, 2}
OptItems == {None} \cup {Some(x) : x \in Items}

(***************************************************************************)
(* An arbitrary upstream cursor (the type parameter I of Fuse<I>).  The     *)
(* trait leaves open what get() returns before the first advance and what  *)
(* advance does after the end, so the upstream is a script of get() values:*)
(* script[1] is what get() returns before any advance, script[k+1] what it *)
(* returns after the k-th advance.  A Some after a None is an upstream     *)
(* that yields again after having reported the end (the Flicker of the     *)
(* fuse test).                                                             *)
(***************************************************************************)
Scripts == [1..UpLen -> OptItems]

ItNew(script) == [script |-> script, pos |-> 1]

ItCanAdvance(it) == it.pos < Len(it.script)

ItAdvance(it) == [it EXCEPT !.pos = it.pos + 1]

ItGet(it) == it.script[it.pos]

\* StreamingIterator::is_done, the default body
ItIsDone(it) == IsNone(ItGet(it))

\* StreamingIterator::next, the default body: the cursor after the call
\* and the value returned
ItNext(it) == [it |-> ItAdvance(it), ret |-> ItGet(ItAdvance(it))]

(***************************************************************************)
(* Fuse                                                                    *)
(***************************************************************************)
FuseState == {"Start", "Middle", "End"}

\* StreamingIterator::fuse
FuseNew(it) == [it |-> it, state |-> "Start"]

\* the upstream is called by Fuse::advance / Fuse::next exactly in the
\* states Start and Middle
FuseCallsUpstream(f) == f.state \in {"Start", "Middle"}

\* an advance() that tries the upstream again after the end
FuseAdvanceRetries(f) ==
    IF ItCanAdvance(f.it)
    THEN [it |-> ItAdvance(f.it),
          state |-> IF ItIsDone(ItAdvance(f.it)) THEN "End" ELSE "Middle"]
    ELSE f

FuseAdvance(f) ==
    CASE f.state = "Start" ->
           LET it2 == ItAdvance(f.it)
           IN  [it |-> it2,
                state |-> IF ItIsDone(it2) THEN "End" ELSE "Middle"]
      [] f.state = "Middle" ->
           LET it2 == ItAdvance(f.it)
           IN  [it |-> it2,
                state |-> IF ItIsDone(it2) THEN "End" ELSE f.state]
      [] f.state = "End" -> f

FuseIsDone(f) ==
    CASE f.state \in {"Start", "End"} -> TRUE
      [] f.state = "Middle" -> FALSE

\* a get() that forwards to the upstream whatever the state
FuseGetIgnoresState(f) == ItGet(f.it)

FuseGet(f) ==
    CASE f.state \in {"Start", "End"} -> None
      [] f.state = "Middle" -> ItGet(f.it)

\* a next() that stays in Middle when the upstream reports the end
FuseNextStaysMiddle(f) ==
    CASE f.state = "Start" ->
           LET n == ItNext(f.it)
           IN  IF IsSome(n.ret)
               THEN [f |-> [it |-> n.it, state |-> "Middle"], ret |-> n.ret]
               ELSE [f |-> [it |-> n.it, state |-> "End"], ret |-> None]
      [] f.state = "Middle" ->
           LET n == ItNext(f.it)
           IN  [f |-> [it |-> n.it, state |-> f.state], ret |-> n.ret]
      [] f.state = "End" -> [f |-> f, ret |-> None]

\* Fuse::next, the override: the Fuse after the call and the value returned
FuseNext(f) ==
    CASE f.state = "Start" ->
           LET n == ItNext(f.it)
           IN  IF IsSome(n.ret)
               THEN [f |-> [it |-> n.it, state |-> "Middle"], ret |-> n.ret]
               ELSE [f |-> [it |-> n.it, state |-> "End"], ret |-> None]
      [] f.state = "Middle" ->
           LET n == ItNext(f.it)
           IN  IF IsSome(n.ret)
               THEN [f |-> [it |-> n.it, state |-> f.state], ret |-> n.ret]
               ELSE [f |-> [it |-> n.it, state |-> "End"], ret |-> None]
      [] f.state = "End" -> [f |-> f, ret |-> None]

\* fuseObs records what a caller of the Fuse has seen: the number of
\* advance/next calls made, whether one of them left the upstream done, and
\* the value of get() after each call.
FuseObsInit == [calls |-> 0, sawDone |-> FALSE, hist |-> <<>>]

FuseObserve(f, f2) ==
    [calls |-> fuseObs.calls + 1,
     sawDone |-> fuseObs.sawDone
                   \/ (FuseCallsUpstream(f) /\ ItIsDone(f2.it)),
     hist |-> Append(fuseObs.hist, FuseGet(f2))]

\* a call needs the upstream to be callable when the Fuse forwards to it
FuseCallable(f) ==
    /\ fuseObs.calls < MaxFuseCalls
    /\ FuseCallsUpstream(f) => ItCanAdvance(f.it)

FuseAdvanceAct ==
    /\ FuseCallable(fuse)
    /\ fuse' = FuseAdvance(fuse)
    /\ fuseObs' = FuseObserve(fuse, fuse')
    /\ UNCHANGED <<chainVars, winVars, cursorVars>>

FuseNextAct ==
    /\ FuseCallable(fuse)
    /\ fuse' = FuseNext(fuse).f
    /\ fuseObs' = FuseObserve(fuse, fuse')
    /\ UNCHANGED <<chainVars, winVars, cursorVars>>

(***************************************************************************)
(* Convert over a finite double-ended std iterator (an array or slice      *)
(* iterator, which keeps returning None once empty).  it is the sequence   *)
(* of elements the wrapped iterator still holds.                           *)
(***************************************************************************)
\* sources::convert
ConvertNew(items) == [it |-> items, item |-> None]

\* Iterator::next on the wrapped iterator: the iterator after the call and
\* the value returned
StdNext(s) ==
    IF s = <<>> THEN [it |-> s, ret |-> None]
    ELSE [it |-> Tail(s), ret |-> Some(Head(s))]

\* DoubleEndedIterator::next_back on the wrapped iterator
StdNextBack(s) ==
    IF s = <<>> THEN [it |-> s, ret |-> None]
    ELSE [it |-> SubSeq(s, 1, Len(s) - 1), ret |-> Some(s[Len(s)])]

ConvertAdvance(c) == [it |-> StdNext(c.it).it, item |-> StdNext(c.it).ret]

ConvertAdvanceBack(c) ==
    [it |-> StdNextBack(c.it).it, item |-> StdNextBack(c.it).ret]

ConvertGet(c) == c.item

\* StreamingIterator::is_done, the default body, on a Convert
ConvertIsDone(c) == IsNone(ConvertGet(c))

(***************************************************************************)
(* Chain<Convert, Convert>                                                 *)
(***************************************************************************)
ChainState == {"BothForward", "BothBackward", "Front", "Back"}

\* StreamingIterator::chain
ChainNew(a, b) == [a |-> a, b |-> b, state |-> "BothForward"]

\* an advance that, finding a done, moves to Back without advancing b
ChainAdvanceForgetsB(c) ==
    CASE c.state \in {"BothForward", "BothBackward"} ->
           LET a2 == ConvertAdvance(c.a)
           IN  IF ConvertIsDone(a2)
               THEN [a |-> a2, b |-> c.b, state |-> "Back"]
               ELSE [a |-> a2, b |-> c.b, state |-> "BothForward"]
      [] c.state = "Front" -> [c EXCEPT !.a = ConvertAdvance(c.a)]
      [] c.state = "Back" -> [c EXCEPT !.b = ConvertAdvance(c.b)]

ChainAdvance(c) ==
    CASE c.state \in {"BothForward", "BothBackward"} ->
           LET a2 == ConvertAdvance(c.a)
           IN  IF ConvertIsDone(a2)
               THEN [a |-> a2, b |-> ConvertAdvance(c.b), state |-> "Back"]
               ELSE [a |-> a2, b |-> c.b, state |-> "BothForward"]
      [] c.state = "Front" -> [c EXCEPT !.a = ConvertAdvance(c.a)]
      [] c.state = "Back" -> [c EXCEPT !.b = ConvertAdvance(c.b)]

ChainIsDone(c) ==
    CASE c.state \in {"BothForward", "Front"} -> ConvertIsDone(c.a)
      [] c.state \in {"BothBackward", "Back"} -> ConvertIsDone(c.b)

\* a get() that reads a in the state BothBackward
ChainGetReadsFront(c) ==
    CASE c.state \in {"BothForward", "BothBackward", "Front"} ->
           ConvertGet(c.a)
      [] c.state = "Back" -> ConvertGet(c.b)

ChainGet(c) ==
    CASE c.state \in {"BothForward", "Front"} -> ConvertGet(c.a)
      [] c.state \in {"BothBackward", "Back"} -> ConvertGet(c.b)

\* an advance_back that, finding b done, moves to Front without advancing a
ChainAdvanceBackForgetsA(c) ==
    CASE c.state \in {"BothForward", "BothBackward"} ->
           LET b2 == ConvertAdvanceBack(c.b)
           IN  IF ConvertIsDone(b2)
               THEN [a |-> c.a, b |-> b2, state |-> "Front"]
               ELSE [a |-> c.a, b |-> b2, state |-> "BothBackward"]
      [] c.state = "Front" -> [c EXCEPT !.a = ConvertAdvanceBack(c.a)]
      [] c.state = "Back" -> [c EXCEPT !.b = ConvertAdvanceBack(c.b)]

\* an advance_back that, in the state Back, keeps going forward
ChainAdvanceBackWrongSide(c) ==
    CASE c.state \in {"BothForward", "BothBackward"} ->
           LET b2 == ConvertAdvanceBack(c.b)
           IN  IF ConvertIsDone(b2)
               THEN [a |-> ConvertAdvanceBack(c.a), b |-> b2,
                     state |-> "Front"]
               ELSE [a |-> c.a, b |-> b2, state |-> "BothBackward"]
      [] c.state = "Front" -> [c EXCEPT !.a = ConvertAdvanceBack(c.a)]
      [] c.state = "Back" -> [c EXCEPT !.b = ConvertAdvance(c.b)]

ChainAdvanceBack(c) ==
    CASE c.state \in {"BothForward", "BothBackward"} ->
           LET b2 == ConvertAdvanceBack(c.b)
           IN  IF ConvertIsDone(b2)
               THEN [a |-> ConvertAdvanceBack(c.a), b |-> b2,
                     state |-> "Front"]
               ELSE [a |-> c.a, b |-> b2, state |-> "BothBackward"]
      [] c.state = "Front" -> [c EXCEPT !.a = ConvertAdvanceBack(c.a)]
      [] c.state = "Back" -> [c EXCEPT !.b = ConvertAdvanceBack(c.b)]

\* Rev(chain).advance()
RevAdvance(c) == ChainAdvanceBack(c)

\* the sources of the chain tests: a holds 0, 1, 2, ... and b holds
\* 10, 20, 30, ...
ItemsA(m) == [i \in 1..m |-> i - 1]
ItemsB(n) == [j \in 1..n |-> 10 * j]

\* chainObs records the two sources the chain was built from and what the
\* caller has done: the number of advance and advance_back calls, the
\* number of each that left get() present, and the direction of the last
\* call ("none" before the first).
ChainObsInit(m, n) ==
    [srcA |-> ItemsA(m), srcB |-> ItemsB(n),
     fwd |-> 0, bwd |-> 0, fwdSome |-> 0, bwdSome |-> 0, last |-> "none"]

MaxChainCalls == 2 * MaxLen + 2

ChainCallable == chainObs.fwd + chainObs.bwd < MaxChainCalls

ChainObserve(c2, dir) ==
    IF dir = "fwd"
    THEN [chainObs EXCEPT !.fwd = @ + 1,
                          !.fwdSome = IF IsSome(ChainGet(c2)) THEN @ + 1 ELSE @,
                          !.last = dir]
    ELSE [chainObs EXCEPT !.bwd = @ + 1,
                          !.bwdSome = IF IsSome(ChainGet(c2)) THEN @ + 1 ELSE @,
                          !.last = dir]

ChainAdvanceAct ==
    /\ ChainCallable
    /\ chain' = ChainAdvance(chain)
    /\ chainObs' = ChainObserve(chain', "fwd")
    /\ UNCHANGED <<fuseVars, winVars, cursorVars>>

ChainAdvanceBackAct ==
    /\ ChainCallable
    /\ chain' = ChainAdvanceBack(chain)
    /\ chainObs' = ChainObserve(chain', "bwd")
    /\ UNCHANGED <<fuseVars, winVars, cursorVars>>

ChainRevAdvanceAct ==
    /\ ChainCallable
    /\ chain' = RevAdvance(chain)
    /\ chainObs' = ChainObserve(chain', "bwd")
    /\ UNCHANGED <<fuseVars, winVars, cursorVars>>


(***************************************************************************)
(* WindowsMut.  The backing buffer is buf; the field slice (a &mut [T]     *)
(* into it) is the sequence of the buffer positions (1-based) it covers,   *)
(* and a window is the sequence of the buffer positions it covers.         *)
(***************************************************************************)
Position == {"Init", "Front", "Back"}

\* NonZeroUsize::new
NonZeroNew(n) == IF n = 0 THEN None ELSE Some(n)

\* a constructor that takes the size as it comes
windows_mut_unchecked(len, size) ==
    Some([slice |-> [i \in 1..len |-> i], size |-> size,
          position |-> "Init"])

\* windows_mut over a slice of len elements: Some(iterator), or None when
\* the expect("size is zero") panics
windows_mut(len, size) ==
    IF IsNone(NonZeroNew(size)) THEN None
    ELSE Some([slice |-> [i \in 1..len |-> i],
               size |-> Unwrap(NonZeroNew(size)),
               position |-> "Init"])

\* a consume that drops the first element whichever end produced the
\* current window
WinConsumeAlwaysFront(w) ==
    CASE w.position = "Init" -> w
      [] w.position \in {"Front", "Back"} ->
           IF w.slice # <<>>
           THEN [w EXCEPT !.slice = Tail(w.slice)]
           ELSE [w EXCEPT !.slice = <<>>]

\* mem::take leaves the empty slice behind; split_first_mut / split_last_mut
\* return None on it
WinConsume(w) ==
    CASE w.position = "Init" -> w
      [] w.position = "Front" ->
           IF w.slice # <<>>
           THEN [w EXCEPT !.slice = Tail(w.slice)]
           ELSE [w EXCEPT !.slice = <<>>]
      [] w.position = "Back" ->
           IF w.slice # <<>>
           THEN [w EXCEPT !.slice = SubSeq(w.slice, 1, Len(w.slice) - 1)]
           ELSE [w EXCEPT !.slice = <<>>]

\* a get_front that slices one element short
WinGetFrontShort(w) ==
    IF w.size - 1 <= Len(w.slice)
    THEN Some(SubSeq(w.slice, 1, w.size - 1))
    ELSE None

\* slice.get(..size)
WinGetFront(w) ==
    IF w.size <= Len(w.slice)
    THEN Some(SubSeq(w.slice, 1, w.size))
    ELSE None

\* len.checked_sub(size)?, then slice.get(start..)
WinGetBack(w) ==
    IF Len(w.slice) < w.size THEN None
    ELSE Some(SubSeq(w.slice, Len(w.slice) - w.size + 1, Len(w.slice)))

\* get_front_mut / get_back_mut: the same sub-slices, mutably borrowed
WinGetFrontMut(w) == WinGetFront(w)
WinGetBackMut(w) == WinGetBack(w)

\* usize::saturating_sub
SaturatingSub(x, y) == IF x >= y THEN x - y ELSE 0

\* a len that does not count the element the next advance consumes
WinLenIgnoresPosition(w) ==
    SaturatingSub(Len(w.slice), w.size - 1)

WinLen(w) ==
    LET len == IF w.position = "Init" THEN Len(w.slice)
               ELSE SaturatingSub(Len(w.slice), 1)
    IN  SaturatingSub(len, w.size - 1)

WinAdvance(w) == [WinConsume(w) EXCEPT !.position = "Front"]

\* an advance_back that consumes twice
WinAdvanceBackDropsTwo(w) ==
    [WinConsume(WinConsume(w)) EXCEPT !.position = "Back"]

WinAdvanceBack(w) == [WinConsume(w) EXCEPT !.position = "Back"]

WinGet(w) ==
    CASE w.position = "Init" -> None
      [] w.position = "Front" -> WinGetFront(w)
      [] w.position = "Back" -> WinGetBack(w)

WinGetMut(w) ==
    CASE w.position = "Init" -> None
      [] w.position = "Front" -> WinGetFrontMut(w)
      [] w.position = "Back" -> WinGetBackMut(w)

\* the overridden next / next_mut / next_back / next_back_mut: the iterator
\* after the call and the window returned
WinNext(w) == [w |-> WinAdvance(w), ret |-> WinGetFront(WinAdvance(w))]
WinNextMut(w) == [w |-> WinAdvance(w), ret |-> WinGetFrontMut(WinAdvance(w))]
WinNextBack(w) ==
    [w |-> WinAdvanceBack(w), ret |-> WinGetBack(WinAdvanceBack(w))]
WinNextBackMut(w) ==
    [w |-> WinAdvanceBack(w), ret |-> WinGetBackMut(WinAdvanceBack(w))]

\* size_hint: the pair (lower, upper)
WinSizeHint(w) == <<WinLen(w), Some(WinLen(w))>>

WinIsDone(w) == Len(w.slice) < w.size

\* count(self)
WinCount(w) == WinLen(w)

\* a write that lands in a copy of the window, not in the buffer
CopyFromSliceDetached(b, window, i) == b

\* win.copy_from_slice(&[i; size]) through the mutable window
CopyFromSlice(b, window, i) ==
    [j \in 1..Len(b) |-> IF \E k \in 1..Len(window) : window[k] = j
                         THEN i ELSE b[j]]

\* StreamingIteratorMut::fold_mut, the default body, run with the closure
\* of test_windows_mut (write the accumulator into every slot of the
\* window, return the accumulator plus one): the buffer and the accumulator
\* when the loop ends
RECURSIVE WinFoldMut(_, _, _)
WinFoldMut(w, b, acc) ==
    LET n == WinNextMut(w)
    IN  IF IsNone(n.ret) THEN [buf |-> b, acc |-> acc]
        ELSE WinFoldMut(n.w, CopyFromSlice(b, Unwrap(n.ret), acc), acc + 1)

\* DoubleEndedStreamingIteratorMut::rfold_mut, the default body, with the
\* same closure
RECURSIVE WinRFoldMut(_, _, _)
WinRFoldMut(w, b, acc) ==
    LET n == WinNextBackMut(w)
    IN  IF IsNone(n.ret) THEN [buf |-> b, acc |-> acc]
        ELSE WinRFoldMut(n.w, CopyFromSlice(b, Unwrap(n.ret), acc), acc + 1)

\* winObs records the call that built the iterator (the requested size)
\* and what the caller has done since: the number of calls from the front
\* and from the back, the number of each that produced a window, the
\* direction and the result of the last call, and, once a fold consumed the
\* iterator, which fold it was and whether the iterator was fresh.
WinObsInit ==
    [size |-> 0, fwd |-> 0, bwd |-> 0, fwdSome |-> 0, bwdSome |-> 0,
     last |-> "none", ret |-> None, fold |-> "none", fresh |-> FALSE]

MaxWinCalls == MaxBuf + 2

WinCallable ==
    /\ winPc = "live"
    /\ winObs.fwd + winObs.bwd < MaxWinCalls

WinObserve(dir, ret) ==
    IF dir = "fwd"
    THEN [winObs EXCEPT !.fwd = @ + 1,
                        !.fwdSome = IF IsSome(ret) THEN @ + 1 ELSE @,
                        !.last = dir, !.ret = ret]
    ELSE [winObs EXCEPT !.bwd = @ + 1,
                        !.bwdSome = IF IsSome(ret) THEN @ + 1 ELSE @,
                        !.last = dir, !.ret = ret]

\* the call windows_mut(&mut buf, size)
WindowsMutAct ==
    /\ winPc = "new"
    /\ \E size \in 0..MaxSize :
         /\ win' = windows_mut(Len(buf), size)
         /\ winPc' = IF IsNone(win') THEN "panicked" ELSE "live"
         /\ winObs' = [winObs EXCEPT !.size = size]
    /\ UNCHANGED <<buf, fuseVars, chainVars, cursorVars>>

\* advance(), then get()
WinAdvanceAct ==
    /\ WinCallable
    /\ win' = Some(WinAdvance(Unwrap(win)))
    /\ winObs' = WinObserve("fwd", WinGet(Unwrap(win')))
    /\ UNCHANGED <<buf, winPc, fuseVars, chainVars, cursorVars>>

\* advance_back(), then get()
WinAdvanceBackAct ==
    /\ WinCallable
    /\ win' = Some(WinAdvanceBack(Unwrap(win)))
    /\ winObs' = WinObserve("bwd", WinGet(Unwrap(win')))
    /\ UNCHANGED <<buf, winPc, fuseVars, chainVars, cursorVars>>

\* next() / next_mut()
WinNextAct ==
    /\ WinCallable
    /\ win' = Some(WinNextMut(Unwrap(win)).w)
    /\ winObs' = WinObserve("fwd", WinNextMut(Unwrap(win)).ret)
    /\ UNCHANGED <<buf, winPc, fuseVars, chainVars, cursorVars>>

\* next_back() / next_back_mut()
WinNextBackAct ==
    /\ WinCallable
    /\ win' = Some(WinNextBackMut(Unwrap(win)).w)
    /\ winObs' = WinObserve("bwd", WinNextBackMut(Unwrap(win)).ret)
    /\ UNCHANGED <<buf, winPc, fuseVars, chainVars, cursorVars>>

\* fold_mut(0, |i, win| { win.copy_from_slice(&[i; size]); i + 1 })
WinFoldMutAct ==
    /\ winPc = "live"
    /\ buf' = WinFoldMut(Unwrap(win), buf, 0).buf
    /\ win' = None
    /\ winPc' = "folded"
    /\ winObs' = [winObs EXCEPT !.fold = "fold_mut",
                                !.fresh = (Unwrap(win).position = "Init")]
    /\ UNCHANGED <<fuseVars, chainVars, cursorVars>>

\* rfold_mut(0, |i, win| { win.copy_from_slice(&[i; size]); i + 1 })
WinRFoldMutAct ==
    /\ winPc = "live"
    /\ buf' = WinRFoldMut(Unwrap(win), buf, 0).buf
    /\ win' = None
    /\ winPc' = "folded"
    /\ winObs' = [winObs EXCEPT !.fold = "rfold_mut",
                                !.fresh = (Unwrap(win).position = "Init")]
    /\ UNCHANGED <<fuseVars, chainVars, cursorVars>>

(***************************************************************************)
(* Specifications: one per cursor under study; the variables of the other  *)
(* cursors stay at their idle values.                                      *)
(***************************************************************************)
FuseIdle ==
    /\ fuse = FuseNew(ItNew([i \in 1..UpLen |-> None]))
    /\ fuseObs = FuseObsInit

ChainIdle ==
    /\ chain = ChainNew(ConvertNew(<<>>), ConvertNew(<<>>))
    /\ chainObs = ChainObsInit(0, 0)

WinIdle ==
    /\ win = None
    /\ buf = <<>>
    /\ winPc = "new"
    /\ winObs = WinObsInit

CursorIdle ==
    /\ cursor = None
    /\ cursorObs = None

\* it.fuse() over any upstream
InitFuse ==
    /\ \E script \in Scripts : fuse = FuseNew(ItNew(script))
    /\ fuseObs = FuseObsInit
    /\ ChainIdle
    /\ WinIdle
    /\ CursorIdle

NextFuse == FuseAdvanceAct \/ FuseNextAct

SpecFuse == InitFuse /\ [][NextFuse]_vars

\* convert(items_a).chain(convert(items_b))
InitChain ==
    /\ \E m \in 0..MaxLen, n \in 0..MaxLen :
         /\ chain = ChainNew(ConvertNew(ItemsA(m)), ConvertNew(ItemsB(n)))
         /\ chainObs = ChainObsInit(m, n)
    /\ FuseIdle
    /\ WinIdle
    /\ CursorIdle

NextChain == ChainAdvanceAct \/ ChainAdvanceBackAct \/ ChainRevAdvanceAct

SpecChain == InitChain /\ [][NextChain]_vars

\* a zeroed buffer, before the call of windows_mut
InitWin ==
    /\ \E len \in 0..MaxBuf : buf = [i \in 1..len |-> 0]
    /\ win = None
    /\ winPc = "new"
    /\ winObs = WinObsInit
    /\ FuseIdle
    /\ ChainIdle
    /\ CursorIdle

NextWin ==
    \/ WindowsMutAct
    \/ WinAdvanceAct
    \/ WinAdvanceBackAct
    \/ WinNextAct
    \/ WinNextBackAct
    \/ WinFoldMutAct
    \/ WinRFoldMutAct

SpecWin == InitWin /\ [][NextWin]_vars


(***************************************************************************)
(* Properties                                                              *)
(***************************************************************************)
ChainAll == chainObs.srcA \o chainObs.srcB

\* C1: get() on a Fuse returns None before the first advance, and once an
\* advance has left the upstream done it returns None after every later
\* advance, whatever the upstream does (an upstream that yields again after
\* None included).
FuseWellBehaved ==
    /\ fuseObs.calls = 0 => FuseGet(fuse) = None
    /\ fuseObs.sawDone => FuseGet(fuse) = None

\* the upstream held an element before the first advance, reported done,
\* the Fuse was advanced at least twice more, and the upstream's next
\* position holds an element again
FuseAfterFlicker ==
    /\ IsSome(fuse.it.script[1])
    /\ fuseObs.sawDone
    /\ fuseObs.calls >= fuse.it.pos + 1
    /\ ItCanAdvance(fuse.it)
    /\ IsSome(fuse.it.script[fuse.it.pos + 1])

\* C2: a chain driven only forward returns a's elements in order, then
\* b's elements in order, and None after the call that follows the last
\* element (a or b empty included).
ChainForwardOrder ==
    (chainObs.bwd = 0 /\ chainObs.fwd >= 1
       /\ chainObs.fwd <= Len(ChainAll) + 1)
    => ChainGet(chain) = IF chainObs.fwd <= Len(ChainAll)
                         THEN Some(ChainAll[chainObs.fwd])
                         ELSE None

\* both sources non-empty, driven forward to the None after the last element
ChainForwardDone ==
    /\ chainObs.bwd = 0
    /\ Len(chainObs.srcA) >= 2
    /\ Len(chainObs.srcB) >= 2
    /\ chainObs.fwd = Len(ChainAll) + 1

\* C3: a chain driven only backward returns b's elements in reverse order,
\* then a's elements in reverse order, then None: the reverse of the
\* forward concatenation (a or b empty included).
ChainBackwardOrder ==
    (chainObs.fwd = 0 /\ chainObs.bwd >= 1
       /\ chainObs.bwd <= Len(ChainAll) + 1)
    => ChainGet(chain) = IF chainObs.bwd <= Len(ChainAll)
                         THEN Some(ChainAll[Len(ChainAll) + 1 - chainObs.bwd])
                         ELSE None

\* both sources non-empty, driven backward to the None after the first
\* element of a
ChainBackwardDone ==
    /\ chainObs.fwd = 0
    /\ Len(chainObs.srcA) >= 2
    /\ Len(chainObs.srcB) >= 2
    /\ chainObs.bwd = Len(ChainAll) + 1

\* C4: under any interleaving of advance and advance_back the i-th advance
\* that yields returns the i-th element from the front of a ++ b, the j-th
\* advance_back that yields the j-th from the back, the two never overlap,
\* and a call leaves get() == None only when every element has been yielded.
ChainMixedExactlyOnce ==
    /\ chainObs.fwdSome + chainObs.bwdSome <= Len(ChainAll)
    /\ (chainObs.last = "fwd" /\ IsSome(ChainGet(chain)))
         => ChainGet(chain) = Some(ChainAll[chainObs.fwdSome])
    /\ (chainObs.last = "bwd" /\ IsSome(ChainGet(chain)))
         => ChainGet(chain)
              = Some(ChainAll[Len(ChainAll) + 1 - chainObs.bwdSome])
    /\ (chainObs.last # "none" /\ IsNone(ChainGet(chain)))
         => chainObs.fwdSome + chainObs.bwdSome = Len(ChainAll)

\* forward calls consumed all of a and reached into b, backward calls took
\* the rest of b, and the chain is now exhausted
ChainMixedDone ==
    /\ Len(chainObs.srcA) >= 1
    /\ chainObs.fwdSome > Len(chainObs.srcA)
    /\ chainObs.bwdSome >= 1
    /\ chainObs.fwdSome + chainObs.bwdSome = Len(ChainAll)
    /\ chainObs.last # "none"
    /\ IsNone(ChainGet(chain))

\* the window of the original buffer at the 0-based offset off
WindowAt(off, size) == [i \in 1..size |-> off + i]

\* the number of windows of length size in a buffer of length len
NumWindows(len, size) == Max(0, len - size + 1)

\* C5: driven forward, windows_mut over a buffer of length L yields
\* max(0, L - size + 1) windows and then None, the i-th (0-based) being
\* buffer[i .. i + size]; when L < size the first call returns None.
WinForwardWindows ==
    (winPc = "live" /\ winObs.bwd = 0 /\ winObs.fwd >= 1)
    => /\ winObs.ret = IF winObs.fwd <= NumWindows(Len(buf), Unwrap(win).size)
                       THEN Some(WindowAt(winObs.fwd - 1, Unwrap(win).size))
                       ELSE None
       /\ winObs.fwdSome
            = Min(winObs.fwd, NumWindows(Len(buf), Unwrap(win).size))

\* several overlapping windows were yielded and the call after the last one
\* returned None
WinForwardDone ==
    /\ winPc = "live"
    /\ winObs.bwd = 0
    /\ Unwrap(win).size >= 2
    /\ NumWindows(Len(buf), Unwrap(win).size) >= 3
    /\ winObs.fwd = NumWindows(Len(buf), Unwrap(win).size) + 1

\* C6: under any interleaving of front and back calls on a WindowsMut,
\* front calls yield the offsets 0, 1, ... in ascending order, back calls
\* the offsets L - size, L - size - 1, ... in descending order, no offset is
\* yielded from both ends, and a call returns None only when all
\* L - size + 1 offsets have been yielded.
WinMixedExactlyOnce ==
    (winPc = "live" /\ winObs.last # "none")
    => LET size == Unwrap(win).size
           num == NumWindows(Len(buf), size)
       IN  /\ winObs.fwdSome + winObs.bwdSome <= num
           /\ (winObs.last = "fwd" /\ IsSome(winObs.ret))
                => winObs.ret = Some(WindowAt(winObs.fwdSome - 1, size))
           /\ (winObs.last = "bwd" /\ IsSome(winObs.ret))
                => winObs.ret
                     = Some(WindowAt(Len(buf) - size - winObs.bwdSome + 1,
                                     size))
           /\ IsNone(winObs.ret) => winObs.fwdSome + winObs.bwdSome = num

\* windows were taken from both ends until the two met
WinMixedDone ==
    /\ winPc = "live"
    /\ Unwrap(win).size >= 2
    /\ winObs.fwdSome >= 2
    /\ winObs.bwdSome >= 2
    /\ winObs.last # "none"
    /\ IsNone(winObs.ret)

\* the number of further next() calls that return Some
RECURSIVE WinRemaining(_)
WinRemaining(w) ==
    IF IsNone(WinNext(w).ret) THEN 0
    ELSE 1 + WinRemaining(WinNext(w).w)

\* C7: in every state of a WindowsMut, size_hint() is (r, Some(r)) and
\* count() is r, r being the number of further next() calls that return
\* Some.
WinExactLength ==
    winPc = "live"
    => /\ WinSizeHint(Unwrap(win))
            = <<WinRemaining(Unwrap(win)), Some(WinRemaining(Unwrap(win)))>>
       /\ WinCount(Unwrap(win)) = WinRemaining(Unwrap(win))

\* six elements, size 3, one advance: count() is 3
WinCountAfterAdvance ==
    /\ winPc = "live"
    /\ Len(buf) = 6
    /\ Unwrap(win).size = 3
    /\ winObs.fwd = 1
    /\ winObs.bwd = 0
    /\ WinCount(Unwrap(win)) = 3

\* C8: folding a fresh windows_mut(buf, size) with L >= size forward while
\* writing the window index into every slot of each window leaves
\* buf[j] == min(j, L - size) (0-based j); rfold_mut leaves the mirrored
\* pattern min(L - 1 - j, L - size).
WinFoldWrites ==
    (winPc = "folded" /\ winObs.fresh /\ Len(buf) >= winObs.size)
    => /\ winObs.fold = "fold_mut"
            => \A j \in 1..Len(buf) :
                 buf[j] = Min(j - 1, Len(buf) - winObs.size)
       /\ winObs.fold = "rfold_mut"
            => \A j \in 1..Len(buf) :
                 buf[j] = Min(Len(buf) - j, Len(buf) - winObs.size)

\* [0; 6] folded forward with size 3
WinFoldExample ==
    /\ winPc = "folded"
    /\ winObs.fresh
    /\ winObs.fold = "fold_mut"
    /\ winObs.size = 3
    /\ buf = <<0, 1, 2, 3, 3, 3>>

\* C9: windows_mut panics when size is 0, for every slice (the empty one
\* included), and no WindowsMut with size 0 exists.
WinSizeNonZero ==
    /\ IsSome(win) => Unwrap(win).size >= 1
    /\ (winPc # "new" /\ winObs.size = 0)
         => (winPc = "panicked" /\ IsNone(win))

\* windows_mut(&mut [], 0) panicked
WinZeroPanicked ==
    /\ winPc = "panicked"
    /\ winObs.size = 0
    /\ buf = <<>>

\* C10: for a WindowsMut, is_done() is true exactly when get() returns
\* None, in every state, the freshly constructed one included.
WinIsDoneIffGetNone ==
    IsSome(win) => (WinIsDone(Unwrap(win)) <=> IsNone(WinGet(Unwrap(win))))

(***************************************************************************)
(* The adapters.  Each is studied over Convert upstreams, its state in the *)
(* variable cursor.                                                        *)
(***************************************************************************)
\* largest length of the upstream of an adapter
MaxUp == 4
\* largest number of inner cursors of a Flatten
MaxOuter == 3
\* largest length of an inner cursor of a Flatten
MaxInner == 2

OthersIdle ==
    /\ FuseIdle
    /\ ChainIdle
    /\ WinIdle

\* the present values of a sequence of Options, in order
RECURSIVE SomeValues(_)
SomeValues(h) ==
    IF h = <<>> THEN <<>>
    ELSE IF IsSome(Head(h)) THEN <<Unwrap(Head(h))>> \o SomeValues(Tail(h))
    ELSE SomeValues(Tail(h))

\* Convert::fold: the wrapped iterator's fold over the elements it still
\* holds, here with a closure that appends the element to the accumulator
ConvertFold(c, acc) == acc \o c.it

(***************************************************************************)
(* Flatten<Convert<Convert>>                                               *)
(***************************************************************************)
\* StreamingIteratorMut::flatten
FlattenNew(iter) == [iter |-> iter, first |-> TRUE]

\* the while loop of Flatten::advance; the inner cursor is advanced in place
\* through get_mut
RECURSIVE FlattenSkipDone(_)
FlattenSkipDone(iter) ==
    IF IsNone(ConvertGet(iter)) THEN iter
    ELSE LET inner == ConvertAdvance(Unwrap(iter.item))
             iter2 == [iter EXCEPT !.item = Some(inner)]
         IN  IF ~ConvertIsDone(inner) THEN iter2
             ELSE FlattenSkipDone(ConvertAdvance(iter2))

FlattenAdvance(fl) ==
    LET iter1 == IF fl.first THEN ConvertAdvance(fl.iter) ELSE fl.iter
    IN  [iter |-> FlattenSkipDone(iter1), first |-> FALSE]

FlattenIsDone(fl) ==
    IF IsSome(ConvertGet(fl.iter))
    THEN ConvertIsDone(Unwrap(ConvertGet(fl.iter)))
    ELSE TRUE

FlattenGet(fl) ==
    IF IsSome(ConvertGet(fl.iter))
    THEN ConvertGet(Unwrap(ConvertGet(fl.iter)))
    ELSE None

\* StreamingIterator::next, the default body, on a Flatten
FlattenNext(fl) == [fl |-> FlattenAdvance(fl), ret |-> FlattenGet(FlattenAdvance(fl))]

\* Convert::fold_mut of the outer cursor: the wrapped iterator's fold over
\* the inner cursors it still holds, each folded by Convert::fold
RECURSIVE FoldInners(_, _)
FoldInners(inners, acc) ==
    IF inners = <<>> THEN acc
    ELSE FoldInners(Tail(inners), ConvertFold(Head(inners), acc))

\* Flatten::fold, the override, with a closure that appends the element to
\* the accumulator
FlattenFold(fl, init) == FoldInners(fl.iter.it, init)

\* StreamingIterator::fold, the default body, on a Flatten, with the same
\* closure
RECURSIVE FlattenDefaultFold(_, _)
FlattenDefaultFold(fl, acc) ==
    IF IsNone(FlattenNext(fl).ret) THEN acc
    ELSE FlattenDefaultFold(FlattenNext(fl).fl,
                            Append(acc, Unwrap(FlattenNext(fl).ret)))

\* the inner cursors of the flatten tests, by their lengths: the elements
\* are numbered 0, 1, 2, ... across the inner cursors
RECURSIVE SumTo(_, _)
SumTo(shape, k) == IF k = 0 THEN 0 ELSE shape[k] + SumTo(shape, k - 1)

InnerItems(shape) ==
    [k \in 1..Len(shape) |->
       ConvertNew([i \in 1..shape[k] |-> SumTo(shape, k - 1) + i - 1])]

Shapes == UNION {[1..k -> 0..MaxInner] : k \in 0..MaxOuter}

\* cursorObs of a Flatten: the elements of the inner cursors in order, the
\* value of get() after each advance, and, once fold has consumed the
\* Flatten, the Flatten it was called on and the elements its closure
\* received.
FlattenObsInit(shape) ==
    [all |-> [i \in 1..SumTo(shape, Len(shape)) |-> i - 1],
     hist |-> <<>>, pc |-> "live", pre |-> None, folded |-> <<>>]

InitFlatten ==
    /\ \E shape \in Shapes :
         /\ cursor = FlattenNew(ConvertNew(InnerItems(shape)))
         /\ cursorObs = FlattenObsInit(shape)
    /\ OthersIdle

FlattenAdvanceAct ==
    /\ cursorObs.pc = "live"
    /\ Len(cursorObs.hist) < Len(cursorObs.all) + 2
    /\ cursor' = FlattenAdvance(cursor)
    /\ cursorObs' = [cursorObs EXCEPT !.hist = Append(@, FlattenGet(cursor'))]
    /\ UNCHANGED <<fuseVars, chainVars, winVars>>

\* fold(self, ..): the Flatten is consumed
FlattenFoldAct ==
    /\ cursorObs.pc = "live"
    /\ cursor' = None
    /\ cursorObs' = [cursorObs EXCEPT !.pc = "folded",
                                      !.pre = Some(cursor),
                                      !.folded = FlattenFold(cursor, <<>>)]
    /\ UNCHANGED <<fuseVars, chainVars, winVars>>

NextFlatten == FlattenAdvanceAct \/ FlattenFoldAct

SpecFlatten == InitFlatten /\ [][NextFlatten]_vars

\* C11: Flatten::fold passes to its closure exactly the elements, in order,
\* that repeated next() calls from the same state would have yielded, in
\* every state the Flatten can be in.
FlattenFoldEquivalent ==
    cursorObs.pc = "folded"
    => cursorObs.folded = FlattenDefaultFold(Unwrap(cursorObs.pre), <<>>)

(***************************************************************************)
(* The upstreams of the remaining adapters: convert(items) for every items *)
(* of at most MaxUp elements.                                              *)
(***************************************************************************)
Vals == {0, 1, 2, 3}
UpSeqs == UNION {[1..k -> Vals] : k \in 0..MaxUp}

\* the number of advance calls made on an adapter
CursorCallable == Len(cursorObs.hist) < Len(cursorObs.src) + 3

(***************************************************************************)
(* Take<Convert>                                                           *)
(***************************************************************************)
\* StreamingIterator::take
TakeNew(it, n) == [it |-> it, n |-> n, done |-> FALSE]

\* an advance that never sets done
TakeAdvanceNeverDone(t) ==
    IF t.n # 0
    THEN [t EXCEPT !.it = ConvertAdvance(t.it), !.n = t.n - 1]
    ELSE t

TakeAdvance(t) ==
    IF t.n # 0
    THEN [t EXCEPT !.it = ConvertAdvance(t.it), !.n = t.n - 1]
    ELSE [t EXCEPT !.done = TRUE]

TakeIsDone(t) == t.done \/ ConvertIsDone(t.it)

\* a get() that forwards to the upstream whatever done is
TakeGetIgnoresDone(t) == ConvertGet(t.it)

TakeGet(t) == IF t.done THEN None ELSE ConvertGet(t.it)

\* cursorObs of a Take: the upstream's elements, the n it was built with
\* and the value of get() after each advance
InitTake ==
    /\ \E src \in UpSeqs, n \in 0..(MaxUp + 1) :
         /\ cursor = TakeNew(ConvertNew(src), n)
         /\ cursorObs = [src |-> src, n |-> n, hist |-> <<>>]
    /\ OthersIdle

TakeAdvanceAct ==
    /\ CursorCallable
    /\ cursor' = TakeAdvance(cursor)
    /\ cursorObs' = [cursorObs EXCEPT !.hist = Append(@, TakeGet(cursor'))]
    /\ UNCHANGED <<fuseVars, chainVars, winVars>>

NextTake == TakeAdvanceAct

SpecTake == InitTake /\ [][NextTake]_vars

\* C12: take(n) over an upstream of L elements yields the first min(n, L)
\* upstream elements in order and then None on every later advance.
TakeYieldsPrefix ==
    \A k \in 1..Len(cursorObs.hist) :
      cursorObs.hist[k]
        = IF k <= Min(cursorObs.n, Len(cursorObs.src))
          THEN Some(cursorObs.src[k])
          ELSE None

\* take(n) with 0 < n < L, advanced twice past its last element
TakeCutShort ==
    /\ cursorObs.n >= 1
    /\ cursorObs.n < Len(cursorObs.src)
    /\ Len(cursorObs.hist) >= cursorObs.n + 2

(***************************************************************************)
(* Skip<Convert>                                                           *)
(***************************************************************************)
\* StreamingIterator::nth, the default body, on a Convert: the cursor after
\* the call, the value returned and the number of advance calls made
\* an nth that makes its n + 1 advances whatever the cursor reports
RECURSIVE ConvertNthNeverStops(_, _, _)
ConvertNthNeverStops(c, n, advances) ==
    IF n = 0
    THEN [it |-> ConvertAdvance(c), ret |-> ConvertGet(ConvertAdvance(c)),
          advances |-> advances + 1]
    ELSE ConvertNthNeverStops(ConvertAdvance(c), n - 1, advances + 1)

RECURSIVE ConvertNthFrom(_, _, _)
ConvertNthFrom(c, n, advances) ==
    IF n = 0
    THEN [it |-> ConvertAdvance(c), ret |-> ConvertGet(ConvertAdvance(c)),
          advances |-> advances + 1]
    ELSE IF ConvertIsDone(ConvertAdvance(c))
         THEN [it |-> ConvertAdvance(c), ret |-> None,
               advances |-> advances + 1]
         ELSE ConvertNthFrom(ConvertAdvance(c), n - 1, advances + 1)

ConvertNth(c, n) == ConvertNthFrom(c, n, 0)

\* StreamingIterator::skip
SkipNew(it, n) == [it |-> it, n |-> n]

\* an advance that keeps n
SkipAdvanceKeepsN(s) == [it |-> ConvertNth(s.it, s.n).it, n |-> s.n]

SkipAdvance(s) == [it |-> ConvertNth(s.it, s.n).it, n |-> 0]

\* the number of upstream advance calls Skip::advance makes
SkipAdvanceUpstreamCalls(s) == ConvertNth(s.it, s.n).advances

SkipIsDone(s) == ConvertIsDone(s.it)

SkipGet(s) == ConvertGet(s.it)

\* cursorObs of a Skip: the upstream's elements, the n it was built with,
\* the value of get() after each advance and the number of upstream
\* advance calls each advance made
InitSkip ==
    /\ \E src \in UpSeqs, n \in 0..(MaxUp + 1) :
         /\ cursor = SkipNew(ConvertNew(src), n)
         /\ cursorObs = [src |-> src, n |-> n, hist |-> <<>>, up |-> <<>>]
    /\ OthersIdle

SkipAdvanceAct ==
    /\ CursorCallable
    /\ cursor' = SkipAdvance(cursor)
    /\ cursorObs' = [cursorObs EXCEPT
                       !.hist = Append(@, SkipGet(cursor')),
                       !.up = Append(@, SkipAdvanceUpstreamCalls(cursor))]
    /\ UNCHANGED <<fuseVars, chainVars, winVars>>

NextSkip == SkipAdvanceAct

SpecSkip == InitSkip /\ [][NextSkip]_vars

\* C13: skip(n) over an upstream of L elements yields the elements at the
\* indices n..L-1 in order and then None; the first advance makes n + 1
\* upstream advances when L >= n and L + 1 (it stops at the advance that
\* exhausts the upstream) otherwise; every later advance makes one.
SkipYieldsSuffix ==
    \A k \in 1..Len(cursorObs.hist) :
      /\ cursorObs.hist[k]
           = IF cursorObs.n + k <= Len(cursorObs.src)
             THEN Some(cursorObs.src[cursorObs.n + k])
             ELSE None
      /\ cursorObs.up[k]
           = IF k > 1 THEN 1
             ELSE IF Len(cursorObs.src) >= cursorObs.n THEN cursorObs.n + 1
             ELSE Len(cursorObs.src) + 1

\* skip(n) with 2 <= n < L - 1, advanced past the end
SkipThenEnd ==
    /\ cursorObs.n >= 2
    /\ cursorObs.n + 2 <= Len(cursorObs.src)
    /\ Len(cursorObs.hist) >= Len(cursorObs.src) - cursorObs.n + 2

(***************************************************************************)
(* Predicates: a closure |&i| ... -> bool is the set of the values it      *)
(* returns true for.                                                       *)
(***************************************************************************)
Preds == SUBSET Vals

\* the index of the first element of src the predicate p is false for,
\* Len(src) + 1 when there is none
FirstFailing(src, p) ==
    IF \E i \in 1..Len(src) : src[i] \notin p
    THEN CHOOSE i \in 1..Len(src) :
           /\ src[i] \notin p
           /\ \A j \in 1..(i - 1) : src[j] \in p
    ELSE Len(src) + 1

(***************************************************************************)
(* SkipWhile<Convert, F>                                                   *)
(***************************************************************************)
\* StreamingIterator::find, the default body, on a Convert, called with the
\* closure |i| !f(i) of SkipWhile::advance: the cursor after the call and
\* the arguments f was called with
RECURSIVE ConvertFindNot(_, _, _)
ConvertFindNot(c, f, calls) ==
    LET c2 == ConvertAdvance(c)
    IN  IF IsNone(ConvertGet(c2)) THEN [it |-> c2, calls |-> calls]
        ELSE IF Unwrap(ConvertGet(c2)) \notin f
             THEN [it |-> c2,
                   calls |-> Append(calls, Unwrap(ConvertGet(c2)))]
             ELSE ConvertFindNot(c2, f,
                                 Append(calls, Unwrap(ConvertGet(c2))))

\* StreamingIterator::skip_while
SkipWhileNew(it, f) == [it |-> it, f |-> f, done |-> FALSE]

\* an advance that never sets done
SkipWhileAdvanceNeverDone(sw) ==
    IF ~sw.done
    THEN [sw EXCEPT !.it = ConvertFindNot(sw.it, sw.f, <<>>).it]
    ELSE [sw EXCEPT !.it = ConvertAdvance(sw.it)]

SkipWhileAdvance(sw) ==
    IF ~sw.done
    THEN [sw EXCEPT !.it = ConvertFindNot(sw.it, sw.f, <<>>).it,
                    !.done = TRUE]
    ELSE [sw EXCEPT !.it = ConvertAdvance(sw.it)]

\* the arguments SkipWhile::advance calls f with
SkipWhileAdvanceCalls(sw) ==
    IF ~sw.done THEN ConvertFindNot(sw.it, sw.f, <<>>).calls ELSE <<>>

SkipWhileIsDone(sw) == ConvertIsDone(sw.it)

SkipWhileGet(sw) == ConvertGet(sw.it)

\* cursorObs of a SkipWhile / TakeWhile: the upstream's elements, the
\* predicate, the value returned after each call and the arguments the
\* predicate has been called with so far
InitSkipWhile ==
    /\ \E src \in UpSeqs, f \in Preds :
         /\ cursor = SkipWhileNew(ConvertNew(src), f)
         /\ cursorObs = [src |-> src, f |-> f, hist |-> <<>>, calls |-> <<>>]
    /\ OthersIdle

SkipWhileAdvanceAct ==
    /\ CursorCallable
    /\ cursor' = SkipWhileAdvance(cursor)
    /\ cursorObs' = [cursorObs EXCEPT
                       !.hist = Append(@, SkipWhileGet(cursor')),
                       !.calls = @ \o SkipWhileAdvanceCalls(cursor)]
    /\ UNCHANGED <<fuseVars, chainVars, winVars>>

NextSkipWhile == SkipWhileAdvanceAct

SpecSkipWhile == InitSkipWhile /\ [][NextSkipWhile]_vars

\* C14: skip_while(p) yields the suffix of the upstream that starts at the
\* first element p is false for, then None; p is called on the elements up
\* to and including that one and never again, so later matching elements
\* are yielded.
SkipWhileYieldsSuffix ==
    LET first == FirstFailing(cursorObs.src, cursorObs.f)
    IN  /\ \A k \in 1..Len(cursorObs.hist) :
             cursorObs.hist[k]
               = IF first + k - 1 <= Len(cursorObs.src)
                 THEN Some(cursorObs.src[first + k - 1])
                 ELSE None
        /\ Len(cursorObs.hist) >= 1
             => cursorObs.calls
                  = SubSeq(cursorObs.src, 1, Min(first, Len(cursorObs.src)))

\* some elements were skipped, the first non-matching one was found, a
\* matching element after it was yielded, and the end was reached
SkipWhileYieldsMatching ==
    LET first == FirstFailing(cursorObs.src, cursorObs.f)
    IN  /\ first >= 2
        /\ first < Len(cursorObs.src)
        /\ cursorObs.src[first + 1] \in cursorObs.f
        /\ Len(cursorObs.hist) >= Len(cursorObs.src) - first + 2

(***************************************************************************)
(* TakeWhile<Convert, F>                                                   *)
(***************************************************************************)
\* StreamingIterator::take_while
TakeWhileNew(it, f) == [it |-> it, f |-> f, done |-> FALSE]

\* an advance that keeps advancing and judges every element anew
TakeWhileAdvanceRechecks(tw) ==
    LET it2 == ConvertAdvance(tw.it)
    IN  [tw EXCEPT !.it = it2,
                   !.done = IsSome(ConvertGet(it2))
                              /\ Unwrap(ConvertGet(it2)) \notin tw.f]

TakeWhileAdvance(tw) ==
    IF ~tw.done
    THEN LET it2 == ConvertAdvance(tw.it)
         IN  IF IsSome(ConvertGet(it2))
             THEN IF Unwrap(ConvertGet(it2)) \notin tw.f
                  THEN [tw EXCEPT !.it = it2, !.done = TRUE]
                  ELSE [tw EXCEPT !.it = it2]
             ELSE [tw EXCEPT !.it = it2]
    ELSE tw

\* the arguments TakeWhile::advance calls f with
TakeWhileAdvanceCalls(tw) ==
    IF ~tw.done /\ IsSome(ConvertGet(ConvertAdvance(tw.it)))
    THEN <<Unwrap(ConvertGet(ConvertAdvance(tw.it)))>>
    ELSE <<>>

TakeWhileIsDone(tw) == tw.done \/ ConvertIsDone(tw.it)

TakeWhileGet(tw) == IF tw.done THEN None ELSE ConvertGet(tw.it)

\* StreamingIterator::next, the default body, on a Convert
ConvertNext(c) == [it |-> ConvertAdvance(c), ret |-> ConvertGet(ConvertAdvance(c))]

\* a next() that does not remember that the predicate failed
TakeWhileNextForgets(tw) ==
    IF tw.done THEN [tw |-> tw, ret |-> None, calls |-> <<>>]
    ELSE LET n == ConvertNext(tw.it)
         IN  IF IsSome(n.ret)
             THEN [tw |-> [tw EXCEPT !.it = n.it],
                   ret |-> IF Unwrap(n.ret) \in tw.f THEN n.ret ELSE None,
                   calls |-> <<Unwrap(n.ret)>>]
             ELSE [tw |-> [tw EXCEPT !.it = n.it], ret |-> None,
                   calls |-> <<>>]

\* TakeWhile::next, the override: the TakeWhile after the call, the value
\* returned and the arguments f was called with
TakeWhileNext(tw) ==
    IF tw.done THEN [tw |-> tw, ret |-> None, calls |-> <<>>]
    ELSE LET n == ConvertNext(tw.it)
         IN  IF IsSome(n.ret)
             THEN IF Unwrap(n.ret) \in tw.f
                  THEN [tw |-> [tw EXCEPT !.it = n.it], ret |-> n.ret,
                        calls |-> <<Unwrap(n.ret)>>]
                  ELSE [tw |-> [tw EXCEPT !.it = n.it, !.done = TRUE],
                        ret |-> None, calls |-> <<Unwrap(n.ret)>>]
             ELSE [tw |-> [tw EXCEPT !.it = n.it], ret |-> None,
                   calls |-> <<>>]

InitTakeWhile ==
    /\ \E src \in UpSeqs, f \in Preds :
         /\ cursor = TakeWhileNew(ConvertNew(src), f)
         /\ cursorObs = [src |-> src, f |-> f, hist |-> <<>>, calls |-> <<>>]
    /\ OthersIdle

\* advance(), then get()
TakeWhileAdvanceAct ==
    /\ CursorCallable
    /\ cursor' = TakeWhileAdvance(cursor)
    /\ cursorObs' = [cursorObs EXCEPT
                       !.hist = Append(@, TakeWhileGet(cursor')),
                       !.calls = @ \o TakeWhileAdvanceCalls(cursor)]
    /\ UNCHANGED <<fuseVars, chainVars, winVars>>

\* next()
TakeWhileNextAct ==
    /\ CursorCallable
    /\ cursor' = TakeWhileNext(cursor).tw
    /\ cursorObs' = [cursorObs EXCEPT
                       !.hist = Append(@, TakeWhileNext(cursor).ret),
                       !.calls = @ \o TakeWhileNext(cursor).calls]
    /\ UNCHANGED <<fuseVars, chainVars, winVars>>

NextTakeWhile == TakeWhileAdvanceAct \/ TakeWhileNextAct

SpecTakeWhile == InitTakeWhile /\ [][NextTakeWhile]_vars

\* C15: take_while(p) yields the longest prefix of the upstream whose
\* elements all satisfy p and then None; once p has been false for an
\* element every later advance leaves get() == None, even when later
\* upstream elements satisfy p.
TakeWhileYieldsPrefix ==
    LET first == FirstFailing(cursorObs.src, cursorObs.f)
    IN  /\ \A k \in 1..Len(cursorObs.hist) :
             cursorObs.hist[k]
               = IF k < first THEN Some(cursorObs.src[k]) ELSE None
        /\ (Len(cursorObs.hist) >= first /\ first <= Len(cursorObs.src))
             => TakeWhileGet(cursor) = None

\* a non-empty prefix was yielded, p failed, the upstream still holds an
\* element satisfying p, and two more calls were made
TakeWhileStaysDone ==
    LET first == FirstFailing(cursorObs.src, cursorObs.f)
    IN  /\ first >= 2
        /\ first < Len(cursorObs.src)
        /\ cursorObs.src[first + 1] \in cursorObs.f
        /\ Len(cursorObs.hist) >= first + 2

(***************************************************************************)
(* Double-ended sources, driven from both ends                             *)
(***************************************************************************)
MaxDe == 3

DeSeqs == UNION {[1..k -> Vals] : k \in 0..MaxDe}

\* the calls made so far stay within two of the source's length
DeCallable == Len(cursorObs.hist) < Len(cursorObs.src) + 2

\* DoubleEndedStreamingIterator::next_back, the default body, on a Convert
ConvertNextBack(c) ==
    [it |-> ConvertAdvanceBack(c), ret |-> ConvertGet(ConvertAdvanceBack(c))]

\* the value of get() after each of the calls dirs made on the Convert c
RECURSIVE ConvertDrive(_, _)
ConvertDrive(c, dirs) ==
    IF dirs = <<>> THEN <<>>
    ELSE LET c2 == IF Head(dirs) = "advance" THEN ConvertAdvance(c)
                   ELSE ConvertAdvanceBack(c)
         IN  <<ConvertGet(c2)>> \o ConvertDrive(c2, Tail(dirs))

Reverse(s) == [i \in 1..Len(s) |-> s[Len(s) + 1 - i]]

\* the elements of src the predicate p is true for, in order
Matching(src, p) == LET Test(x) == x \in p IN SelectSeq(src, Test)

\* the k-th element of s, None past its end
NthOrNone(s, k) == IF k <= Len(s) THEN Some(s[k]) ELSE None

(***************************************************************************)
(* Filter<Convert, F>                                                      *)
(***************************************************************************)
\* StreamingIterator::filter
FilterNew(it, f) == [it |-> it, f |-> f]

\* an advance that takes one upstream step whatever the predicate says
FilterAdvanceOneStep(fl) == [fl EXCEPT !.it = ConvertNext(fl.it).it]

RECURSIVE FilterAdvance(_)
FilterAdvance(fl) ==
    LET n == ConvertNext(fl.it)
    IN  IF IsSome(n.ret)
        THEN IF Unwrap(n.ret) \in fl.f
             THEN [fl EXCEPT !.it = n.it]
             ELSE FilterAdvance([fl EXCEPT !.it = n.it])
        ELSE [fl EXCEPT !.it = n.it]

RECURSIVE FilterAdvanceBack(_)
FilterAdvanceBack(fl) ==
    LET n == ConvertNextBack(fl.it)
    IN  IF IsSome(n.ret)
        THEN IF Unwrap(n.ret) \in fl.f
             THEN [fl EXCEPT !.it = n.it]
             ELSE FilterAdvanceBack([fl EXCEPT !.it = n.it])
        ELSE [fl EXCEPT !.it = n.it]

FilterIsDone(fl) == ConvertIsDone(fl.it)

FilterGet(fl) == ConvertGet(fl.it)

\* cursorObs of a double-ended adapter: the source's elements, the value of
\* get() after each call, and which call each was
InitFilter ==
    /\ \E src \in DeSeqs, f \in Preds :
         /\ cursor = FilterNew(ConvertNew(src), f)
         /\ cursorObs = [src |-> src, f |-> f, hist |-> <<>>, dirs |-> <<>>]
    /\ OthersIdle

FilterAdvanceAct ==
    /\ DeCallable
    /\ cursor' = FilterAdvance(cursor)
    /\ cursorObs' = [cursorObs EXCEPT
                       !.hist = Append(@, FilterGet(cursor')),
                       !.dirs = Append(@, "advance")]
    /\ UNCHANGED <<fuseVars, chainVars, winVars>>

FilterAdvanceBackAct ==
    /\ DeCallable
    /\ cursor' = FilterAdvanceBack(cursor)
    /\ cursorObs' = [cursorObs EXCEPT
                       !.hist = Append(@, FilterGet(cursor')),
                       !.dirs = Append(@, "advance_back")]
    /\ UNCHANGED <<fuseVars, chainVars, winVars>>

NextFilter == FilterAdvanceAct \/ FilterAdvanceBackAct

SpecFilter == InitFilter /\ [][NextFilter]_vars

\* C16: filter(p) yields the upstream elements p is true for, in upstream
\* order through advance and in reverse order through advance_back, then
\* None; with an always-true predicate get() after every call equals that
\* of the unfiltered source driven by the same calls.
FilterYieldsMatching ==
    LET kept == Matching(cursorObs.src, cursorObs.f)
        n    == Len(cursorObs.hist)
    IN  /\ (\A k \in 1..n : cursorObs.dirs[k] = "advance")
             => \A k \in 1..n : cursorObs.hist[k] = NthOrNone(kept, k)
        /\ (\A k \in 1..n : cursorObs.dirs[k] = "advance_back")
             => \A k \in 1..n :
                  cursorObs.hist[k] = NthOrNone(Reverse(kept), k)
        /\ cursorObs.f = Vals
             => cursorObs.hist
                  = ConvertDrive(ConvertNew(cursorObs.src), cursorObs.dirs)

\* a source with kept and dropped elements was filtered from the back until
\* None came
FilterBackToEnd ==
    LET kept == Matching(cursorObs.src, cursorObs.f)
    IN  /\ Len(kept) >= 2
        /\ Len(kept) < Len(cursorObs.src)
        /\ kept[1] # kept[2]
        /\ \A k \in 1..Len(cursorObs.dirs) : cursorObs.dirs[k] = "advance_back"
        /\ Len(cursorObs.hist) > Len(kept)

(***************************************************************************)
(* Inspect<Convert, F>: the closure f records its arguments, as the        *)
(* closure of test::inspect does; f is the record so far.                  *)
(***************************************************************************)
MaxGets == 2

\* StreamingIterator::inspect, with a closure that has recorded nothing
InspectNew(it) == [it |-> it, f |-> <<>>]

\* an advance that never calls the closure
InspectAdvanceSilent(ins) == [ins EXCEPT !.it = ConvertNext(ins.it).it]

InspectAdvance(ins) ==
    LET n == ConvertNext(ins.it)
    IN  IF IsSome(n.ret)
        THEN [ins EXCEPT !.it = n.it, !.f = Append(@, Unwrap(n.ret))]
        ELSE [ins EXCEPT !.it = n.it]

InspectAdvanceBack(ins) ==
    LET n == ConvertNextBack(ins.it)
    IN  IF IsSome(n.ret)
        THEN [ins EXCEPT !.it = n.it, !.f = Append(@, Unwrap(n.ret))]
        ELSE [ins EXCEPT !.it = n.it]

InspectIsDone(ins) == ConvertIsDone(ins.it)

InspectGet(ins) == ConvertGet(ins.it)

\* Iterator::fold over items with the closure Inspect::fold passes down:
\* f(item), then fold(acc, item), where fold appends the item to acc
RECURSIVE InspectFoldItems(_, _, _)
InspectFoldItems(items, acc, f) ==
    IF items = <<>> THEN [acc |-> acc, f |-> f]
    ELSE InspectFoldItems(Tail(items), Append(acc, Head(items)),
                          Append(f, Head(items)))

\* Inspect::fold over Convert::fold
InspectFold(ins, init) == InspectFoldItems(ins.it.it, init, ins.f)

\* Inspect::rfold over Convert::rfold, which folds self.it.rev()
InspectRFold(ins, init) == InspectFoldItems(Reverse(ins.it.it), init, ins.f)

\* cursorObs of an Inspect: the source, get() after each advance /
\* advance_back, which call each was, the number of further get() calls,
\* and once folded the accumulator and the closure's record
InitInspect ==
    /\ \E src \in DeSeqs :
         /\ cursor = InspectNew(ConvertNew(src))
         /\ cursorObs = [src |-> src, hist |-> <<>>, dirs |-> <<>>,
                         gets |-> 0, lastGet |-> None, pc |-> "live",
                         acc |-> <<>>, f |-> <<>>]
    /\ OthersIdle

InspectAdvanceAct ==
    /\ cursorObs.pc = "live"
    /\ DeCallable
    /\ cursor' = InspectAdvance(cursor)
    /\ cursorObs' = [cursorObs EXCEPT
                       !.hist = Append(@, InspectGet(cursor')),
                       !.dirs = Append(@, "advance")]
    /\ UNCHANGED <<fuseVars, chainVars, winVars>>

InspectAdvanceBackAct ==
    /\ cursorObs.pc = "live"
    /\ DeCallable
    /\ cursor' = InspectAdvanceBack(cursor)
    /\ cursorObs' = [cursorObs EXCEPT
                       !.hist = Append(@, InspectGet(cursor')),
                       !.dirs = Append(@, "advance_back")]
    /\ UNCHANGED <<fuseVars, chainVars, winVars>>

\* get(&self): the adapter is left as it is
InspectGetAct ==
    /\ cursorObs.pc = "live"
    /\ cursorObs.gets < MaxGets
    /\ cursor' = cursor
    /\ cursorObs' = [cursorObs EXCEPT !.gets = @ + 1,
                                      !.lastGet = InspectGet(cursor)]
    /\ UNCHANGED <<fuseVars, chainVars, winVars>>

\* fold(self, ..): the adapter is moved into the call
InspectFoldAct ==
    /\ cursorObs.pc = "live"
    /\ cursor' = None
    /\ cursorObs' = [cursorObs EXCEPT !.pc = "fold",
                                      !.acc = InspectFold(cursor, <<>>).acc,
                                      !.f = InspectFold(cursor, <<>>).f]
    /\ UNCHANGED <<fuseVars, chainVars, winVars>>

InspectRFoldAct ==
    /\ cursorObs.pc = "live"
    /\ cursor' = None
    /\ cursorObs' = [cursorObs EXCEPT !.pc = "rfold",
                                      !.acc = InspectRFold(cursor, <<>>).acc,
                                      !.f = InspectRFold(cursor, <<>>).f]
    /\ UNCHANGED <<fuseVars, chainVars, winVars>>

NextInspect ==
    \/ InspectAdvanceAct
    \/ InspectAdvanceBackAct
    \/ InspectGetAct
    \/ InspectFoldAct
    \/ InspectRFoldAct

SpecInspect == InitInspect /\ [][NextInspect]_vars

\* how many of the calls in dirs were d
RECURSIVE CountDir(_, _)
CountDir(dirs, d) ==
    IF dirs = <<>> THEN 0
    ELSE (IF Head(dirs) = d THEN 1 ELSE 0) + CountDir(Tail(dirs), d)

\* the elements of src no call in dirs has reached, in source order
Unvisited(src, dirs) ==
    LET nf == CountDir(dirs, "advance")
        nb == CountDir(dirs, "advance_back")
    IN  IF nf + nb >= Len(src) THEN <<>>
        ELSE SubSeq(src, nf + 1, Len(src) - nb)

\* C17: inspect(f) calls f once for each element the adapter yields, in
\* yield order, in the advance / advance_back that lands on it; get() and
\* a step onto the exhausted upstream call nothing; fold / rfold call f once
\* for each element they hand to the fold closure, in that order.
InspectCallsPerYield ==
    /\ cursorObs.pc = "live" => cursor.f = SomeValues(cursorObs.hist)
    /\ cursorObs.pc = "fold" =>
         /\ cursorObs.acc = Unvisited(cursorObs.src, cursorObs.dirs)
         /\ cursorObs.f = SomeValues(cursorObs.hist) \o cursorObs.acc
    /\ cursorObs.pc = "rfold" =>
         /\ cursorObs.acc
              = Reverse(Unvisited(cursorObs.src, cursorObs.dirs))
         /\ cursorObs.f = SomeValues(cursorObs.hist) \o cursorObs.acc

\* after calls from both ends and repeated get() calls, rfold consumed what
\* was left
InspectFoldedAfterBothEnds ==
    /\ cursorObs.pc = "rfold"
    /\ cursorObs.gets >= 2
    /\ CountDir(cursorObs.dirs, "advance") >= 1
    /\ CountDir(cursorObs.dirs, "advance_back") >= 1
    /\ Len(cursorObs.acc) >= 1

(***************************************************************************)
(* MapRef<Convert, F> over items of struct Foo(i32) with f = |f| &f.0.     *)
(* f is a Fn closure without state, so every operation returns, next to    *)
(* its result, the arguments it called f with.                             *)
(***************************************************************************)
MaxNth == 2

\* struct Foo(i32) of test::map_ref
Foo(v) == [f0 |-> v]

\* the closure |f| &f.0
Field0(foo) == foo.f0

FooSeqs == UNION {[1..k -> {Foo(v) : v \in Vals}] : k \in 0..MaxUp}

\* Option::map(&self.f): the mapped option and the calls of f it made
OptionMapF(o) ==
    IF IsSome(o)
    THEN [ret |-> Some(Field0(Unwrap(o))), calls |-> <<Unwrap(o)>>]
    ELSE [ret |-> None, calls |-> <<>>]

\* StreamingIterator::map_ref
MapRefNew(it) == [it |-> it]

\* an advance that maps the element it lands on, as Map::advance does
MapRefAdvanceEager(m) ==
    [m |-> [it |-> ConvertAdvance(m.it)],
     calls |-> OptionMapF(ConvertGet(ConvertAdvance(m.it))).calls]

MapRefAdvance(m) == [m |-> [it |-> ConvertAdvance(m.it)], calls |-> <<>>]

MapRefIsDone(m) == [ret |-> ConvertIsDone(m.it), calls |-> <<>>]

MapRefGet(m) == OptionMapF(ConvertGet(m.it))

MapRefNext(m) ==
    LET n == ConvertNext(m.it)
    IN  [m |-> [it |-> n.it], ret |-> OptionMapF(n.ret).ret,
         calls |-> OptionMapF(n.ret).calls]

\* StreamingIterator::nth, the default body, on a MapRef; calls holds the
\* calls of f made so far
RECURSIVE MapRefNthFrom(_, _, _)
MapRefNthFrom(m, n, calls) ==
    IF n = 0
    THEN [m |-> MapRefNext(m).m, ret |-> MapRefNext(m).ret,
          calls |-> calls \o MapRefNext(m).calls]
    ELSE LET a == MapRefAdvance(m)
             d == MapRefIsDone(a.m)
         IN  IF d.ret
             THEN [m |-> a.m, ret |-> None,
                   calls |-> calls \o a.calls \o d.calls]
             ELSE MapRefNthFrom(a.m, n - 1, calls \o a.calls \o d.calls)

MapRefNth(m, n) == MapRefNthFrom(m, n, <<>>)

\* how many elements the upstream Convert of a MapRef has handed out
MapRefTaken(m, src) == Len(src) - Len(m.it.it)

\* cursorObs of a MapRef: the source, the last operation with its argument
\* and result, the calls of f it made, and how many elements the upstream
\* had handed out before it
InitMapRef ==
    /\ \E src \in FooSeqs :
         /\ cursor = MapRefNew(ConvertNew(src))
         /\ cursorObs = [src |-> src, op |-> "map_ref", n |-> 0,
                         ret |-> None, calls |-> <<>>, before |-> 0]
    /\ OthersIdle

MapRefAdvanceAct ==
    /\ cursor' = MapRefAdvance(cursor).m
    /\ cursorObs' = [cursorObs EXCEPT
                       !.op = "advance", !.n = 0, !.ret = None,
                       !.calls = MapRefAdvance(cursor).calls,
                       !.before = MapRefTaken(cursor, cursorObs.src)]
    /\ UNCHANGED <<fuseVars, chainVars, winVars>>

MapRefIsDoneAct ==
    /\ cursor' = cursor
    /\ cursorObs' = [cursorObs EXCEPT
                       !.op = "is_done", !.n = 0,
                       !.ret = Some(MapRefIsDone(cursor).ret),
                       !.calls = MapRefIsDone(cursor).calls,
                       !.before = MapRefTaken(cursor, cursorObs.src)]
    /\ UNCHANGED <<fuseVars, chainVars, winVars>>

MapRefGetAct ==
    /\ cursor' = cursor
    /\ cursorObs' = [cursorObs EXCEPT
                       !.op = "get", !.n = 0,
                       !.ret = MapRefGet(cursor).ret,
                       !.calls = MapRefGet(cursor).calls,
                       !.before = MapRefTaken(cursor, cursorObs.src)]
    /\ UNCHANGED <<fuseVars, chainVars, winVars>>

MapRefNextAct ==
    /\ cursor' = MapRefNext(cursor).m
    /\ cursorObs' = [cursorObs EXCEPT
                       !.op = "next", !.n = 0,
                       !.ret = MapRefNext(cursor).ret,
                       !.calls = MapRefNext(cursor).calls,
                       !.before = MapRefTaken(cursor, cursorObs.src)]
    /\ UNCHANGED <<fuseVars, chainVars, winVars>>

MapRefNthAct ==
    \E n \in 0..MaxNth :
      /\ cursor' = MapRefNth(cursor, n).m
      /\ cursorObs' = [cursorObs EXCEPT
                         !.op = "nth", !.n = n,
                         !.ret = MapRefNth(cursor, n).ret,
                         !.calls = MapRefNth(cursor, n).calls,
                         !.before = MapRefTaken(cursor, cursorObs.src)]
      /\ UNCHANGED <<fuseVars, chainVars, winVars>>

NextMapRef ==
    \/ MapRefAdvanceAct
    \/ MapRefIsDoneAct
    \/ MapRefGetAct
    \/ MapRefNextAct
    \/ MapRefNthAct

SpecMapRef == InitMapRef /\ [][NextMapRef]_vars

\* C18: on a MapRef, advance() and is_done() never call f; get() and next()
\* call it once when an element is present and not at all otherwise; nth(n)
\* calls it at most once, on the element it returns, never on a skipped one.
MapRefCallsOnlyOnGet ==
    LET src == cursorObs.src
        at  == cursorObs.before + cursorObs.n + 1
    IN  /\ cursorObs.op \in {"advance", "is_done"} => cursorObs.calls = <<>>
        /\ cursorObs.op \in {"get", "next"} =>
             /\ cursorObs.calls
                  = (IF IsSome(ConvertGet(cursor.it))
                     THEN <<Unwrap(ConvertGet(cursor.it))>> ELSE <<>>)
             /\ cursorObs.ret
                  = (IF IsSome(ConvertGet(cursor.it))
                     THEN Some(Unwrap(ConvertGet(cursor.it)).f0) ELSE None)
        /\ cursorObs.op = "nth" =>
             /\ Len(cursorObs.calls) <= 1
             /\ cursorObs.calls
                  = (IF at <= Len(src) THEN <<src[at]>> ELSE <<>>)
             /\ cursorObs.ret
                  = (IF at <= Len(src) THEN Some(src[at].f0) ELSE None)

\* nth skipped two elements, all different from the one it returned, on a
\* cursor that had already moved
MapRefNthSkipped ==
    /\ cursorObs.op = "nth"
    /\ cursorObs.n = 2
    /\ cursorObs.before >= 1
    /\ IsSome(cursorObs.ret)
    /\ \A i \in 1..2 :
         cursorObs.src[cursorObs.before + i]
           # cursorObs.src[cursorObs.before + 3]

(***************************************************************************)
(* Rev<Convert> and Rev<Rev<Convert>>; the tuple field .0 is named inner.  *)
(***************************************************************************)
\* Convert::rfold with a closure that appends the item to acc
ConvertRFold(c, acc) == acc \o Reverse(c.it)

\* StreamingIterator::rev
RevNew(it) == [inner |-> it]

\* an advance that drives the wrapped cursor forwards
RevConvertAdvanceForward(r) == [r EXCEPT !.inner = ConvertAdvance(r.inner)]

RevConvertAdvance(r) == [r EXCEPT !.inner = ConvertAdvanceBack(r.inner)]

RevConvertAdvanceBack(r) == [r EXCEPT !.inner = ConvertAdvance(r.inner)]

RevConvertIsDone(r) == ConvertIsDone(r.inner)

RevConvertGet(r) == ConvertGet(r.inner)

\* Rev::next, the override
RevConvertNext(r) ==
    [r |-> [r EXCEPT !.inner = ConvertNextBack(r.inner).it],
     ret |-> ConvertNextBack(r.inner).ret]

\* Rev::next_back, the override
RevConvertNextBack(r) ==
    [r |-> [r EXCEPT !.inner = ConvertNext(r.inner).it],
     ret |-> ConvertNext(r.inner).ret]

\* Rev::fold with a closure that appends the item to acc
RevConvertFold(r, init) == ConvertRFold(r.inner, init)

\* Rev::rfold with the same closure
RevConvertRFold(r, init) == ConvertFold(r.inner, init)

InitRev ==
    /\ \E src \in DeSeqs :
         /\ cursor = RevNew(ConvertNew(src))
         /\ cursorObs = [src |-> src, hist |-> <<>>, dirs |-> <<>>,
                         pc |-> "live", acc |-> <<>>]
    /\ OthersIdle

RevAdvanceAct ==
    /\ cursorObs.pc = "live"
    /\ DeCallable
    /\ cursor' = RevConvertAdvance(cursor)
    /\ cursorObs' = [cursorObs EXCEPT
                       !.hist = Append(@, RevConvertGet(cursor')),
                       !.dirs = Append(@, "advance")]
    /\ UNCHANGED <<fuseVars, chainVars, winVars>>

RevAdvanceBackAct ==
    /\ cursorObs.pc = "live"
    /\ DeCallable
    /\ cursor' = RevConvertAdvanceBack(cursor)
    /\ cursorObs' = [cursorObs EXCEPT
                       !.hist = Append(@, RevConvertGet(cursor')),
                       !.dirs = Append(@, "advance_back")]
    /\ UNCHANGED <<fuseVars, chainVars, winVars>>

RevNextAct ==
    /\ cursorObs.pc = "live"
    /\ DeCallable
    /\ cursor' = RevConvertNext(cursor).r
    /\ cursorObs' = [cursorObs EXCEPT
                       !.hist = Append(@, RevConvertNext(cursor).ret),
                       !.dirs = Append(@, "advance")]
    /\ UNCHANGED <<fuseVars, chainVars, winVars>>

RevNextBackAct ==
    /\ cursorObs.pc = "live"
    /\ DeCallable
    /\ cursor' = RevConvertNextBack(cursor).r
    /\ cursorObs' = [cursorObs EXCEPT
                       !.hist = Append(@, RevConvertNextBack(cursor).ret),
                       !.dirs = Append(@, "advance_back")]
    /\ UNCHANGED <<fuseVars, chainVars, winVars>>

RevFoldAct ==
    /\ cursorObs.pc = "live"
    /\ cursor' = None
    /\ cursorObs' = [cursorObs EXCEPT !.pc = "fold",
                                      !.acc = RevConvertFold(cursor, <<>>)]
    /\ UNCHANGED <<fuseVars, chainVars, winVars>>

RevRFoldAct ==
    /\ cursorObs.pc = "live"
    /\ cursor' = None
    /\ cursorObs' = [cursorObs EXCEPT !.pc = "rfold",
                                      !.acc = RevConvertRFold(cursor, <<>>)]
    /\ UNCHANGED <<fuseVars, chainVars, winVars>>

NextRev ==
    \/ RevAdvanceAct
    \/ RevAdvanceBackAct
    \/ RevNextAct
    \/ RevNextBackAct
    \/ RevFoldAct
    \/ RevRFoldAct

SpecRev == InitRev /\ [][NextRev]_vars

\* every advance becomes an advance_back and the other way round
SwapDirs(dirs) ==
    [i \in 1..Len(dirs) |->
       IF dirs[i] = "advance" THEN "advance_back" ELSE "advance"]

\* C19: rev() yields the source's elements in the opposite order, then
\* None; Rev::advance drives the wrapped cursor's advance_back and
\* Rev::advance_back its advance, so get() after any calls is that of the
\* source driven by the swapped calls, and fold hands over what is left
\* back to front.
RevYieldsReversed ==
    LET src == cursorObs.src
        n   == Len(cursorObs.hist)
    IN  /\ (\A k \in 1..n : cursorObs.dirs[k] = "advance")
             => \A k \in 1..n : cursorObs.hist[k] = NthOrNone(Reverse(src), k)
        /\ cursorObs.hist = ConvertDrive(ConvertNew(src), SwapDirs(cursorObs.dirs))
        /\ cursorObs.pc = "fold"
             => cursorObs.acc
                  = Reverse(Unvisited(src, SwapDirs(cursorObs.dirs)))
        /\ cursorObs.pc = "rfold"
             => cursorObs.acc = Unvisited(src, SwapDirs(cursorObs.dirs))

\* a source whose ends differ was walked through rev() to its end
RevWalkedToEnd ==
    /\ Len(cursorObs.src) >= 3
    /\ cursorObs.src[1] # cursorObs.src[Len(cursorObs.src)]
    /\ \A k \in 1..Len(cursorObs.dirs) : cursorObs.dirs[k] = "advance"
    /\ Len(cursorObs.hist) > Len(cursorObs.src)
    /\ cursorObs.pc = "live"

(***************************************************************************)
(* Rev<Rev<Convert>>                                                       *)
(***************************************************************************)
\* an outer advance that reaches the inner Rev's advance
RevRevAdvanceUnswapped(rr) ==
    [rr EXCEPT !.inner = RevConvertAdvance(rr.inner)]

RevRevAdvance(rr) == [rr EXCEPT !.inner = RevConvertAdvanceBack(rr.inner)]

RevRevAdvanceBack(rr) == [rr EXCEPT !.inner = RevConvertAdvance(rr.inner)]

RevRevGet(rr) == RevConvertGet(rr.inner)

InitRevRev ==
    /\ \E src \in DeSeqs :
         /\ cursor = RevNew(RevNew(ConvertNew(src)))
         /\ cursorObs = [src |-> src, hist |-> <<>>, dirs |-> <<>>]
    /\ OthersIdle

RevRevAdvanceAct ==
    /\ DeCallable
    /\ cursor' = RevRevAdvance(cursor)
    /\ cursorObs' = [cursorObs EXCEPT
                       !.hist = Append(@, RevRevGet(cursor')),
                       !.dirs = Append(@, "advance")]
    /\ UNCHANGED <<fuseVars, chainVars, winVars>>

RevRevAdvanceBackAct ==
    /\ DeCallable
    /\ cursor' = RevRevAdvanceBack(cursor)
    /\ cursorObs' = [cursorObs EXCEPT
                       !.hist = Append(@, RevRevGet(cursor')),
                       !.dirs = Append(@, "advance_back")]
    /\ UNCHANGED <<fuseVars, chainVars, winVars>>

NextRevRev == RevRevAdvanceAct \/ RevRevAdvanceBackAct

SpecRevRev == InitRevRev /\ [][NextRevRev]_vars

\* C20: for every source and every sequence of advance / advance_back
\* calls, s.rev().rev() returns after each call the get() value the source
\* itself returns when driven by the same calls.
RevRevRoundTrip ==
    cursorObs.hist = ConvertDrive(ConvertNew(cursorObs.src), cursorObs.dirs)

\* a source whose ends differ was driven from both ends past its end
RevRevBothEnds ==
    /\ Len(cursorObs.src) >= 2
    /\ cursorObs.src[1] # cursorObs.src[Len(cursorObs.src)]
    /\ \E k \in 1..Len(cursorObs.dirs) : cursorObs.dirs[k] = "advance"
    /\ \E k \in 1..Len(cursorObs.dirs) : cursorObs.dirs[k] = "advance_back"
    /\ Len(cursorObs.hist) > Len(cursorObs.src)

(***************************************************************************)
(* Sources of sources.rs.  size_hint() is the pair <<lower, upper>> with   *)
(* upper an Option.                                                        *)
(***************************************************************************)
MaxSrcCalls == 4

\* the calls made on a source so far stay within MaxSrcCalls
SrcCallable == Len(cursorObs.hist) < MaxSrcCalls

\* `b as usize`
BoolAsUsize(b) == IF b THEN 1 ELSE 0

(***************************************************************************)
(* Once<T>                                                                 *)
(***************************************************************************)
\* once
OnceNew(x) == [first |-> TRUE, item |-> Some(x)]

\* an advance that never drops the item
OnceAdvanceKeepsItem(o) == [o EXCEPT !.first = FALSE]

OnceAdvance(o) ==
    IF o.first THEN [o EXCEPT !.first = FALSE] ELSE [o EXCEPT !.item = None]

OnceGet(o) == o.item

OnceSizeHint(o) == <<BoolAsUsize(o.first), Some(BoolAsUsize(o.first))>>

OnceAdvanceBack(o) == OnceAdvance(o)

\* cursorObs of a source: its argument, get() after each call, and which
\* call each was
InitOnce ==
    /\ \E x \in Vals :
         /\ cursor = OnceNew(x)
         /\ cursorObs = [x |-> x, hist |-> <<>>, dirs |-> <<>>]
    /\ OthersIdle

OnceAdvanceAct ==
    /\ SrcCallable
    /\ cursor' = OnceAdvance(cursor)
    /\ cursorObs' = [cursorObs EXCEPT
                       !.hist = Append(@, OnceGet(cursor')),
                       !.dirs = Append(@, "advance")]
    /\ UNCHANGED <<fuseVars, chainVars, winVars>>

OnceAdvanceBackAct ==
    /\ SrcCallable
    /\ cursor' = OnceAdvanceBack(cursor)
    /\ cursorObs' = [cursorObs EXCEPT
                       !.hist = Append(@, OnceGet(cursor')),
                       !.dirs = Append(@, "advance_back")]
    /\ UNCHANGED <<fuseVars, chainVars, winVars>>

NextOnce == OnceAdvanceAct \/ OnceAdvanceBackAct

SpecOnce == InitOnce /\ [][NextOnce]_vars

\* C21: under any interleaving of advance and advance_back, once(x) has
\* get() == Some(x) after the first call and None after every later one;
\* size_hint() is (1, Some(1)) before the first call and (0, Some(0)) after.
OnceYieldsOne ==
    /\ \A k \in 1..Len(cursorObs.hist) :
         cursorObs.hist[k] = IF k = 1 THEN Some(cursorObs.x) ELSE None
    /\ OnceSizeHint(cursor)
         = IF cursorObs.hist = <<>> THEN <<1, Some(1)>> ELSE <<0, Some(0)>>

\* the element came through advance_back and later calls of both kinds
\* followed
OnceBackThenMore ==
    /\ Len(cursorObs.dirs) >= 3
    /\ cursorObs.dirs[1] = "advance_back"
    /\ \E k \in 2..Len(cursorObs.dirs) : cursorObs.dirs[k] = "advance"
    /\ \E k \in 2..Len(cursorObs.dirs) : cursorObs.dirs[k] = "advance_back"

(***************************************************************************)
(* OnceWith<T, F>: the FnOnce generator returning v is the value v; every  *)
(* advance returns, next to the source, how often it called the generator. *)
(***************************************************************************)
\* once_with
OnceWithNew(gen) == [gen |-> Some(gen), item |-> None]

\* an advance that calls the generator without taking it
OnceWithAdvanceKeepsGen(o) ==
    IF IsSome(o.gen)
    THEN [o |-> [o EXCEPT !.item = Some(Unwrap(o.gen))], calls |-> 1]
    ELSE [o |-> [o EXCEPT !.item = None], calls |-> 0]

OnceWithAdvance(o) ==
    IF IsSome(o.gen)
    THEN [o |-> [gen |-> None, item |-> Some(Unwrap(o.gen))], calls |-> 1]
    ELSE [o |-> [gen |-> None, item |-> None], calls |-> 0]

OnceWithGet(o) == o.item

OnceWithSizeHint(o) ==
    <<BoolAsUsize(IsSome(o.gen)), Some(BoolAsUsize(IsSome(o.gen)))>>

OnceWithAdvanceBack(o) == OnceWithAdvance(o)

InitOnceWith ==
    /\ \E v \in Vals :
         /\ cursor = OnceWithNew(v)
         /\ cursorObs = [x |-> v, hist |-> <<>>, dirs |-> <<>>,
                         calls |-> <<>>]
    /\ OthersIdle

OnceWithAdvanceAct ==
    /\ SrcCallable
    /\ cursor' = OnceWithAdvance(cursor).o
    /\ cursorObs' = [cursorObs EXCEPT
                       !.hist = Append(@, OnceWithGet(cursor')),
                       !.dirs = Append(@, "advance"),
                       !.calls = Append(@, OnceWithAdvance(cursor).calls)]
    /\ UNCHANGED <<fuseVars, chainVars, winVars>>

OnceWithAdvanceBackAct ==
    /\ SrcCallable
    /\ cursor' = OnceWithAdvanceBack(cursor).o
    /\ cursorObs' = [cursorObs EXCEPT
                       !.hist = Append(@, OnceWithGet(cursor')),
                       !.dirs = Append(@, "advance_back"),
                       !.calls = Append(@, OnceWithAdvanceBack(cursor).calls)]
    /\ UNCHANGED <<fuseVars, chainVars, winVars>>

NextOnceWith == OnceWithAdvanceAct \/ OnceWithAdvanceBackAct

SpecOnceWith == InitOnceWith /\ [][NextOnceWith]_vars

\* C22: once_with(gen) does not call gen at construction, calls it once in
\* the first advance or advance_back and never again; get() is Some(gen())
\* after the first call and None after every later one.
OnceWithCallsGenOnce ==
    /\ cursorObs.hist = <<>> => (cursor.item = None /\ IsSome(cursor.gen))
    /\ \A k \in 1..Len(cursorObs.hist) :
         /\ cursorObs.calls[k] = IF k = 1 THEN 1 ELSE 0
         /\ cursorObs.hist[k] = IF k = 1 THEN Some(cursorObs.x) ELSE None

\* the generator ran in an advance_back and calls of both kinds followed
OnceWithBackThenMore ==
    /\ Len(cursorObs.calls) >= 3
    /\ cursorObs.dirs[1] = "advance_back"
    /\ cursorObs.calls[1] = 1
    /\ \E k \in 2..Len(cursorObs.dirs) : cursorObs.dirs[k] = "advance"

(***************************************************************************)
(* Successors<T, F>: succ is a function from Vals to Option<Vals>; every   *)
(* advance returns, next to the source, the arguments it called succ with. *)
(***************************************************************************)
OptVals == {None} \cup {Some(v) : v \in Vals}

SuccFns == [Vals -> OptVals]

\* successors
SuccessorsNew(first, succ) == [first |-> TRUE, item |-> first, succ |-> succ]

\* an advance that steps from the seed at once
SuccessorsAdvanceSkipsSeed(s) ==
    IF IsSome(s.item)
    THEN [s |-> [s EXCEPT !.first = FALSE, !.item = s.succ[Unwrap(s.item)]],
          calls |-> <<Unwrap(s.item)>>]
    ELSE [s |-> [s EXCEPT !.first = FALSE], calls |-> <<>>]

SuccessorsAdvance(s) ==
    IF s.first THEN [s |-> [s EXCEPT !.first = FALSE], calls |-> <<>>]
    ELSE IF IsSome(s.item)
         THEN [s |-> [s EXCEPT !.item = s.succ[Unwrap(s.item)]],
               calls |-> <<Unwrap(s.item)>>]
         ELSE [s |-> s, calls |-> <<>>]

SuccessorsGet(s) == s.item

InitSuccessors ==
    /\ \E first \in OptVals, succ \in SuccFns :
         /\ cursor = SuccessorsNew(first, succ)
         /\ cursorObs = [first |-> first, succ |-> succ, hist |-> <<>>,
                         calls |-> <<>>]
    /\ OthersIdle

SuccessorsAdvanceAct ==
    /\ Len(cursorObs.hist) < MaxSrcCalls + 1
    /\ cursor' = SuccessorsAdvance(cursor).s
    /\ cursorObs' = [cursorObs EXCEPT
                       !.hist = Append(@, SuccessorsGet(cursor')),
                       !.calls = Append(@, SuccessorsAdvance(cursor).calls)]
    /\ UNCHANGED <<fuseVars, chainVars, winVars>>

NextSuccessors == SuccessorsAdvanceAct

SpecSuccessors == InitSuccessors /\ [][NextSuccessors]_vars

\* C23: the first advance of successors(first, succ) exposes the seed
\* without calling succ; each later advance replaces the item x by succ(x),
\* calling succ once; once the item is None it stays None and succ is not
\* called again.
SuccessorsSteps ==
    \A k \in 1..Len(cursorObs.hist) :
      IF k = 1
      THEN cursorObs.hist[k] = cursorObs.first /\ cursorObs.calls[k] = <<>>
      ELSE IF IsSome(cursorObs.hist[k - 1])
           THEN /\ cursorObs.hist[k]
                     = cursorObs.succ[Unwrap(cursorObs.hist[k - 1])]
                /\ cursorObs.calls[k] = <<Unwrap(cursorObs.hist[k - 1])>>
           ELSE cursorObs.hist[k] = None /\ cursorObs.calls[k] = <<>>

\* seed 1 with succ = +1 while < 3 went 1, 2, 3, None and was advanced
\* once more
SuccessorsOneTwoThree ==
    /\ cursorObs.first = Some(1)
    /\ cursorObs.succ[1] = Some(2)
    /\ cursorObs.succ[2] = Some(3)
    /\ cursorObs.succ[3] = None
    /\ cursorObs.hist = <<Some(1), Some(2), Some(3), None, None>>

(***************************************************************************)
(* Repeat<T> and RepeatWith<T, F>: the FnMut generator is the sequence of  *)
(* the values its calls will return.                                       *)
(***************************************************************************)
\* usize::MAX, on the widest target these integers can hold
UsizeMax == 2147483647

GenScripts == [1..MaxSrcCalls -> Vals]

\* repeat
RepeatNew(x) == [item |-> x]

RepeatAdvance(r) == r

RepeatAdvanceBack(r) == r

RepeatGet(r) == Some(r.item)

RepeatSizeHint(r) == <<UsizeMax, None>>

\* repeat_with
RepeatWithNew(gen) == [gen |-> gen, item |-> None]

\* an advance that calls the generator only while there is no item
RepeatWithAdvanceFillsOnce(r) ==
    IF IsNone(r.item)
    THEN [r |-> [gen |-> Tail(r.gen), item |-> Some(Head(r.gen))],
          calls |-> 1]
    ELSE [r |-> r, calls |-> 0]

RepeatWithAdvance(r) ==
    [r |-> [gen |-> Tail(r.gen), item |-> Some(Head(r.gen))], calls |-> 1]

RepeatWithGet(r) == r.item

RepeatWithSizeHint(r) == <<UsizeMax, None>>

\* cursorObs of an endless source: which source it is, its argument, get()
\* and size_hint() after each call and the generator calls made so far
InitRepeat ==
    /\ \/ \E x \in Vals :
            /\ cursor = RepeatNew(x)
            /\ cursorObs = [kind |-> "repeat", x |-> <<x>>, hist |-> <<>>,
                            hints |-> <<RepeatSizeHint(cursor)>>, calls |-> 0]
       \/ \E gen \in GenScripts :
            /\ cursor = RepeatWithNew(gen)
            /\ cursorObs = [kind |-> "repeat_with", x |-> gen, hist |-> <<>>,
                            hints |-> <<RepeatWithSizeHint(cursor)>>,
                            calls |-> 0]
    /\ OthersIdle

RepeatAdvanceAct ==
    /\ cursorObs.kind = "repeat"
    /\ SrcCallable
    /\ cursor' = RepeatAdvance(cursor)
    /\ cursorObs' = [cursorObs EXCEPT
                       !.hist = Append(@, RepeatGet(cursor')),
                       !.hints = Append(@, RepeatSizeHint(cursor'))]
    /\ UNCHANGED <<fuseVars, chainVars, winVars>>

RepeatAdvanceBackAct ==
    /\ cursorObs.kind = "repeat"
    /\ SrcCallable
    /\ cursor' = RepeatAdvanceBack(cursor)
    /\ cursorObs' = [cursorObs EXCEPT
                       !.hist = Append(@, RepeatGet(cursor')),
                       !.hints = Append(@, RepeatSizeHint(cursor'))]
    /\ UNCHANGED <<fuseVars, chainVars, winVars>>

RepeatWithAdvanceAct ==
    /\ cursorObs.kind = "repeat_with"
    /\ SrcCallable
    /\ cursor' = RepeatWithAdvance(cursor).r
    /\ cursorObs' = [cursorObs EXCEPT
                       !.hist = Append(@, RepeatWithGet(cursor')),
                       !.hints = Append(@, RepeatWithSizeHint(cursor')),
                       !.calls = @ + RepeatWithAdvance(cursor).calls]
    /\ UNCHANGED <<fuseVars, chainVars, winVars>>

NextRepeat == RepeatAdvanceAct \/ RepeatAdvanceBackAct \/ RepeatWithAdvanceAct

SpecRepeat == InitRepeat /\ [][NextRepeat]_vars

\* C24: after k >= 1 advances get() on repeat(x) is Some(x) and on
\* repeat_with(gen) is Some of the latest of exactly k results of gen; both
\* report size_hint (usize::MAX, None) at all times.
EndlessNeverNone ==
    /\ \A k \in 1..Len(cursorObs.hist) :
         /\ IsSome(cursorObs.hist[k])
         /\ cursorObs.hist[k]
              = Some(IF cursorObs.kind = "repeat" THEN cursorObs.x[1]
                     ELSE cursorObs.x[k])
    /\ cursorObs.kind = "repeat_with" => cursorObs.calls = Len(cursorObs.hist)
    /\ \A k \in 1..Len(cursorObs.hints) :
         cursorObs.hints[k] = <<UsizeMax, None>>

\* a generator with changing results was advanced three times
RepeatWithThreeResults ==
    /\ cursorObs.kind = "repeat_with"
    /\ Len(cursorObs.hist) >= 3
    /\ cursorObs.x[1] # cursorObs.x[2]
    /\ cursorObs.x[2] # cursorObs.x[3]

(***************************************************************************)
(* FlatMap<Convert, Convert, F> with f = |&i| convert(i), next to the      *)
(* Flatten above; advance returns, next to the FlatMap, the arguments it   *)
(* called f with.                                                          *)
(***************************************************************************)
MaxFlatOuter == 5

FlatShapes == UNION {[1..k -> 0..MaxInner] : k \in 0..MaxFlatOuter}

\* the upstream elements of the flat_map tests: the arrays the inner
\* cursors of the same shape run over
FlatRows(shape) == [k \in 1..Len(shape) |-> InnerItems(shape)[k].it]

\* StreamingIterator::flat_map
FlatMapNew(it) == [it |-> it, sub_iter |-> None]

\* the loop of FlatMap::advance
RECURSIVE FlatMapLoop(_, _)
FlatMapLoop(fm, calls) ==
    LET sub1 == IF IsSome(fm.sub_iter)
                THEN Some(ConvertAdvance(Unwrap(fm.sub_iter)))
                ELSE None
        fm1  == [fm EXCEPT !.sub_iter = sub1]
        n    == ConvertNext(fm1.it)
    IN  IF IsSome(sub1) /\ ~ConvertIsDone(Unwrap(sub1))
        THEN [fm |-> fm1, calls |-> calls]
        ELSE IF IsSome(n.ret)
             THEN FlatMapLoop(
                    [fm1 EXCEPT !.it = n.it,
                                !.sub_iter = Some(ConvertNew(Unwrap(n.ret)))],
                    Append(calls, Unwrap(n.ret)))
             ELSE [fm |-> [fm1 EXCEPT !.it = n.it], calls |-> calls]

\* an advance that pulls at most one upstream element and steps into it
FlatMapAdvanceOnePull(fm) ==
    LET sub1 == IF IsSome(fm.sub_iter)
                THEN Some(ConvertAdvance(Unwrap(fm.sub_iter)))
                ELSE None
        fm1  == [fm EXCEPT !.sub_iter = sub1]
        n    == ConvertNext(fm1.it)
    IN  IF IsSome(sub1) /\ ~ConvertIsDone(Unwrap(sub1))
        THEN [fm |-> fm1, calls |-> <<>>]
        ELSE IF IsSome(n.ret)
             THEN [fm |-> [fm1 EXCEPT
                             !.it = n.it,
                             !.sub_iter = Some(ConvertAdvance(
                                                 ConvertNew(Unwrap(n.ret))))],
                   calls |-> <<Unwrap(n.ret)>>]
             ELSE [fm |-> [fm1 EXCEPT !.it = n.it], calls |-> <<>>]

FlatMapAdvance(fm) == FlatMapLoop(fm, <<>>)

FlatMapIsDone(fm) ==
    IF IsSome(fm.sub_iter) THEN ConvertIsDone(Unwrap(fm.sub_iter)) ELSE TRUE

FlatMapGet(fm) ==
    IF IsSome(fm.sub_iter) THEN ConvertGet(Unwrap(fm.sub_iter)) ELSE None

\* cursorObs: which adapter it is, the upstream elements, the elements of
\* the inner cursors in order, get() after each advance, and the arguments
\* f has been called with
InitFlatMap ==
    /\ \E shape \in FlatShapes, kind \in {"flat_map", "flatten"} :
         /\ cursor = IF kind = "flat_map"
                     THEN FlatMapNew(ConvertNew(FlatRows(shape)))
                     ELSE FlattenNew(ConvertNew(InnerItems(shape)))
         /\ cursorObs
              = [kind |-> kind, rows |-> FlatRows(shape),
                 all |-> [i \in 1..SumTo(shape, Len(shape)) |-> i - 1],
                 hist |-> <<>>, calls |-> <<>>]
    /\ OthersIdle

FlatMapAdvanceAct ==
    /\ cursorObs.kind = "flat_map"
    /\ Len(cursorObs.hist) < Len(cursorObs.all) + 2
    /\ cursor' = FlatMapAdvance(cursor).fm
    /\ cursorObs' = [cursorObs EXCEPT
                       !.hist = Append(@, FlatMapGet(cursor')),
                       !.calls = @ \o FlatMapAdvance(cursor).calls]
    /\ UNCHANGED <<fuseVars, chainVars, winVars>>

FlatMapFlattenAdvanceAct ==
    /\ cursorObs.kind = "flatten"
    /\ Len(cursorObs.hist) < Len(cursorObs.all) + 2
    /\ cursor' = FlattenAdvance(cursor)
    /\ cursorObs' = [cursorObs EXCEPT !.hist = Append(@, FlattenGet(cursor'))]
    /\ UNCHANGED <<fuseVars, chainVars, winVars>>

NextFlatMap == FlatMapAdvanceAct \/ FlatMapFlattenAdvanceAct

SpecFlatMap == InitFlatMap /\ [][NextFlatMap]_vars

\* C25: flatten() and flat_map(f) yield the elements of the inner cursors
\* in order, skipping empty inner cursors wherever they stand, then None;
\* f is called on the upstream elements in order, once each, and on all of
\* them by the time None is reached.
FlatYieldsConcatenation ==
    /\ \A k \in 1..Len(cursorObs.hist) :
         cursorObs.hist[k] = NthOrNone(cursorObs.all, k)
    /\ cursorObs.kind = "flat_map" =>
         /\ Len(cursorObs.calls) <= Len(cursorObs.rows)
         /\ cursorObs.calls = SubSeq(cursorObs.rows, 1, Len(cursorObs.calls))
         /\ Len(cursorObs.hist) > Len(cursorObs.all)
              => cursorObs.calls = cursorObs.rows

\* flat_map over empty arrays in first, last and two consecutive middle
\* places was walked to its end
FlatMapSkippedEmpties ==
    LET rows == cursorObs.rows
    IN  /\ cursorObs.kind = "flat_map"
        /\ Len(rows) >= 5
        /\ rows[1] = <<>>
        /\ rows[Len(rows)] = <<>>
        /\ \E i \in 2..(Len(rows) - 2) : rows[i] = <<>> /\ rows[i + 1] = <<>>
        /\ Len(cursorObs.all) >= 1
        /\ Len(cursorObs.hist) > Len(cursorObs.all)

(***************************************************************************)
(* count(): the default body over the default fold, Convert's override     *)
(* and Fuse's override, on the same finite source                          *)
(***************************************************************************)
\* StreamingIterator::count, the default body, over StreamingIterator::fold,
\* the default body, on a Convert
RECURSIVE ConvertDefaultCount(_, _)
ConvertDefaultCount(c, count) ==
    LET n == ConvertNext(c)
    IN  IF IsSome(n.ret) THEN ConvertDefaultCount(n.it, count + 1) ELSE count

\* a count that counts the current element too
ConvertCountWithCurrent(c) == Len(c.it) + Len(c.item)

\* Convert::count: Iterator::count of the wrapped iterator
ConvertCount(c) == Len(c.it)

\* the same default count on the scripted upstream of a Fuse
RECURSIVE ItDefaultCount(_, _)
ItDefaultCount(it, count) ==
    LET n == ItNext(it)
    IN  IF IsSome(n.ret) THEN ItDefaultCount(n.it, count + 1) ELSE count

\* Fuse::count
FuseCount(f) ==
    CASE f.state \in {"Start", "Middle"} -> ItDefaultCount(f.it, 0)
      [] f.state = "End" -> 0

\* the get() values of a finite cursor over src: None before the first
\* advance, its elements, None from then on
FiniteScript(src) ==
    <<None>> \o [i \in 1..Len(src) |-> Some(src[i])] \o <<None, None, None>>

\* cursor holds the same source twice, as a Convert and under a Fuse;
\* cursorObs the source, the advances made on both and the three counts
InitCount ==
    /\ \E src \in UpSeqs :
         /\ cursor = [conv |-> ConvertNew(src),
                      fuse |-> FuseNew(ItNew(FiniteScript(src)))]
         /\ cursorObs = [src |-> src, k |-> 0, pc |-> "live", counts |-> <<>>]
    /\ OthersIdle

CountAdvanceAct ==
    /\ cursorObs.pc = "live"
    /\ cursorObs.k < Len(cursorObs.src) + 2
    /\ cursor' = [conv |-> ConvertAdvance(cursor.conv),
                  fuse |-> FuseAdvance(cursor.fuse)]
    /\ cursorObs' = [cursorObs EXCEPT !.k = @ + 1]
    /\ UNCHANGED <<fuseVars, chainVars, winVars>>

\* count(self): the cursors are consumed
CountAct ==
    /\ cursorObs.pc = "live"
    /\ cursor' = None
    /\ cursorObs' = [cursorObs EXCEPT
                       !.pc = IF cursor.fuse.state = "End" THEN "countedEnd"
                              ELSE "counted",
                       !.counts = <<ConvertDefaultCount(cursor.conv, 0),
                                    ConvertCount(cursor.conv),
                                    FuseCount(cursor.fuse)>>]
    /\ UNCHANGED <<fuseVars, chainVars, winVars>>

NextCount == CountAdvanceAct \/ CountAct

SpecCount == InitCount /\ [][NextCount]_vars

\* C26: after k <= L advances on a source of length L, count() is L - k by
\* the default fold-based body, by Convert's override and by Fuse's
\* override alike; on a Fuse that has reached End it is 0.
CountIsRemaining ==
    /\ cursorObs.pc \in {"counted", "countedEnd"} =>
         \A i \in 1..3 :
           cursorObs.counts[i] = Max(Len(cursorObs.src) - cursorObs.k, 0)
    /\ cursorObs.pc = "countedEnd" => cursorObs.counts[3] = 0

\* count() after two advances with two elements left
CountAfterTwo ==
    /\ cursorObs.pc = "counted"
    /\ cursorObs.k = 2
    /\ cursorObs.counts = <<2, 2, 2>>

(***************************************************************************)
(* fold / rfold / for_each with the closure of the tests,                  *)
(* |acc, i| acc * 10 + i, by the default bodies and by Convert's overrides *)
(***************************************************************************)
\* the closure |acc, i| acc * 10 + i
Combine(acc, i) == acc * 10 + i

\* the values init is drawn from
FoldInits == {0, 1}

\* StreamingIterator::fold, the default body, on a Convert
RECURSIVE ConvertDefaultFold(_, _)
ConvertDefaultFold(c, acc) ==
    LET n == ConvertNext(c)
    IN  IF IsSome(n.ret)
        THEN ConvertDefaultFold(n.it, Combine(acc, Unwrap(n.ret)))
        ELSE acc

\* DoubleEndedStreamingIterator::rfold, the default body, on a Convert
RECURSIVE ConvertDefaultRFold(_, _)
ConvertDefaultRFold(c, acc) ==
    LET n == ConvertNextBack(c)
    IN  IF IsSome(n.ret)
        THEN ConvertDefaultRFold(n.it, Combine(acc, Unwrap(n.ret)))
        ELSE acc

\* a fold that stops after the first element
IterFoldFirstOnly(items, acc) ==
    IF items = <<>> THEN acc ELSE Combine(acc, Head(items))

\* Iterator::fold of the wrapped iterator, as Convert::fold calls it
RECURSIVE IterFold(_, _)
IterFold(items, acc) ==
    IF items = <<>> THEN acc
    ELSE IterFold(Tail(items), Combine(acc, Head(items)))

\* Convert::fold
ConvertFoldDigits(c, init) == IterFold(c.it, init)

\* Convert::rfold: self.it.rev().fold
ConvertRFoldDigits(c, init) == IterFold(Reverse(c.it), init)

\* StreamingIterator::for_each on a Convert with the closure
\* |i| acc = acc * 10 + i: self.fold((), ..), the captured acc afterwards
ConvertForEach(c, acc) == ConvertFoldDigits(c, acc)

\* cursorObs: the source, the advance and advance_back calls made, init,
\* and the results of the default body and of the override
InitFold ==
    /\ \E src \in UpSeqs :
         /\ cursor = ConvertNew(src)
         /\ cursorObs = [src |-> src, nf |-> 0, nb |-> 0, pc |-> "live",
                         init |-> 0, byDefault |-> 0, byOverride |-> 0]
    /\ OthersIdle

FoldAdvanceAct ==
    /\ cursorObs.pc = "live"
    /\ cursorObs.nf + cursorObs.nb < Len(cursorObs.src) + 1
    /\ cursor' = ConvertAdvance(cursor)
    /\ cursorObs' = [cursorObs EXCEPT !.nf = @ + 1]
    /\ UNCHANGED <<fuseVars, chainVars, winVars>>

FoldAdvanceBackAct ==
    /\ cursorObs.pc = "live"
    /\ cursorObs.nf + cursorObs.nb < Len(cursorObs.src) + 1
    /\ cursor' = ConvertAdvanceBack(cursor)
    /\ cursorObs' = [cursorObs EXCEPT !.nb = @ + 1]
    /\ UNCHANGED <<fuseVars, chainVars, winVars>>

FoldAct ==
    /\ cursorObs.pc = "live"
    /\ \E init \in FoldInits :
         cursorObs' = [cursorObs EXCEPT
                         !.pc = "fold", !.init = init,
                         !.byDefault = ConvertDefaultFold(cursor, init),
                         !.byOverride = ConvertFoldDigits(cursor, init)]
    /\ cursor' = None
    /\ UNCHANGED <<fuseVars, chainVars, winVars>>

RFoldAct ==
    /\ cursorObs.pc = "live"
    /\ \E init \in FoldInits :
         cursorObs' = [cursorObs EXCEPT
                         !.pc = "rfold", !.init = init,
                         !.byDefault = ConvertDefaultRFold(cursor, init),
                         !.byOverride = ConvertRFoldDigits(cursor, init)]
    /\ cursor' = None
    /\ UNCHANGED <<fuseVars, chainVars, winVars>>

ForEachAct ==
    /\ cursorObs.pc = "live"
    /\ \E init \in FoldInits :
         cursorObs' = [cursorObs EXCEPT
                         !.pc = "for_each", !.init = init,
                         !.byDefault = ConvertDefaultFold(cursor, init),
                         !.byOverride = ConvertForEach(cursor, init)]
    /\ cursor' = None
    /\ UNCHANGED <<fuseVars, chainVars, winVars>>

NextFold ==
    \/ FoldAdvanceAct
    \/ FoldAdvanceBackAct
    \/ FoldAct
    \/ RFoldAct
    \/ ForEachAct

SpecFold == InitFold /\ [][NextFold]_vars

\* 10 to the n
RECURSIVE Pow10(_)
Pow10(n) == IF n = 0 THEN 1 ELSE 10 * Pow10(n - 1)

\* the sum of s[i] * 10^(Len(s) - i) over the first k elements of s
RECURSIVE DigitSum(_, _)
DigitSum(s, k) ==
    IF k = 0 THEN 0 ELSE s[k] * Pow10(Len(s) - k) + DigitSum(s, k - 1)

\* init followed by the elements of s, read as decimal digits
Digits(s, init) == init * Pow10(Len(s)) + DigitSum(s, Len(s))

\* the elements nf advance and nb advance_back calls have left
Remaining(src, nf, nb) ==
    IF nf + nb >= Len(src) THEN <<>> ELSE SubSeq(src, nf + 1, Len(src) - nb)

\* C27: fold threads the accumulator through the remaining elements in
\* forward order, rfold in backward order, each element once, and both
\* return init for an exhausted cursor; for_each visits the elements fold
\* visits, in the same order; the default bodies and Convert's overrides
\* agree.
FoldThreadsInOrder ==
    LET rest == Remaining(cursorObs.src, cursorObs.nf, cursorObs.nb)
    IN  /\ cursorObs.pc \in {"fold", "for_each"} =>
             /\ cursorObs.byDefault = Digits(rest, cursorObs.init)
             /\ cursorObs.byOverride = Digits(rest, cursorObs.init)
        /\ cursorObs.pc = "rfold" =>
             /\ cursorObs.byDefault = Digits(Reverse(rest), cursorObs.init)
             /\ cursorObs.byOverride = Digits(Reverse(rest), cursorObs.init)
        /\ (cursorObs.pc # "live" /\ rest = <<>>) =>
             /\ cursorObs.byDefault = cursorObs.init
             /\ cursorObs.byOverride = cursorObs.init

\* rfold over [0, 1, 2, 3] from 0 gave 3210
RFoldGivesThreeTwoOneZero ==
    /\ cursorObs.pc = "rfold"
    /\ cursorObs.src = <<0, 1, 2, 3>>
    /\ cursorObs.nf = 0 /\ cursorObs.nb = 0
    /\ cursorObs.init = 0
    /\ cursorObs.byDefault = 3210
    /\ cursorObs.byOverride = 3210

(***************************************************************************)
(* find / position / all / any / nth, the default bodies, on a Convert.    *)
(* Each returns the cursor after the call, the value returned and the      *)
(* arguments the predicate was called with.                                *)
(***************************************************************************)
\* a find that looks at one element only
ConvertFindOneStep(c, f, calls) ==
    [it |-> ConvertAdvance(c), ret |-> ConvertGet(ConvertAdvance(c)),
     calls |-> calls \o ConvertGet(ConvertAdvance(c))]

\* StreamingIterator::find
RECURSIVE ConvertFind(_, _, _)
ConvertFind(c, f, calls) ==
    LET c2 == ConvertAdvance(c)
    IN  IF IsNone(ConvertGet(c2))
        THEN [it |-> c2, ret |-> ConvertGet(c2), calls |-> calls]
        ELSE IF Unwrap(ConvertGet(c2)) \in f
             THEN [it |-> c2, ret |-> ConvertGet(c2),
                   calls |-> Append(calls, Unwrap(ConvertGet(c2)))]
             ELSE ConvertFind(c2, f, Append(calls, Unwrap(ConvertGet(c2))))

\* StreamingIterator::position, from the counter value n
RECURSIVE ConvertPosition(_, _, _, _)
ConvertPosition(c, f, n, calls) ==
    LET nx == ConvertNext(c)
    IN  IF IsNone(nx.ret) THEN [it |-> nx.it, ret |-> None, calls |-> calls]
        ELSE IF Unwrap(nx.ret) \in f
             THEN [it |-> nx.it, ret |-> Some(n),
                   calls |-> Append(calls, Unwrap(nx.ret))]
             ELSE ConvertPosition(nx.it, f, n + 1,
                                  Append(calls, Unwrap(nx.ret)))

\* an all that goes on after the predicate has failed
RECURSIVE ConvertAllToEnd(_, _, _, _)
ConvertAllToEnd(c, f, neg, calls) ==
    LET nx == ConvertNext(c)
    IN  IF IsNone(nx.ret) THEN [it |-> nx.it, ret |-> TRUE, calls |-> calls]
        ELSE ConvertAllToEnd(nx.it, f, neg, Append(calls, Unwrap(nx.ret)))

\* StreamingIterator::all with the closure f, or, when neg, with the
\* closure |i| !f(i) that StreamingIterator::any passes
RECURSIVE ConvertAllWith(_, _, _, _)
ConvertAllWith(c, f, neg, calls) ==
    LET nx == ConvertNext(c)
    IN  IF IsNone(nx.ret) THEN [it |-> nx.it, ret |-> TRUE, calls |-> calls]
        ELSE IF (Unwrap(nx.ret) \in f) = neg
             THEN [it |-> nx.it, ret |-> FALSE,
                   calls |-> Append(calls, Unwrap(nx.ret))]
             ELSE ConvertAllWith(nx.it, f, neg,
                                 Append(calls, Unwrap(nx.ret)))

ConvertAll(c, f) == ConvertAllWith(c, f, FALSE, <<>>)

\* StreamingIterator::any
ConvertAny(c, f) ==
    [ConvertAllWith(c, f, TRUE, <<>>) EXCEPT !.ret = ~@]

\* cursorObs: the source, the predicate, the advances made before the
\* call, the call (pc), the cursor it was made on, its argument n, what it
\* returned, the predicate's arguments and the advances it made
InitSearch ==
    /\ \E src \in UpSeqs, f \in Preds :
         /\ cursor = ConvertNew(src)
         /\ cursorObs = [src |-> src, f |-> f, k |-> 0, pc |-> "live",
                         pre |-> None, n |-> 0, ret |-> None,
                         calls |-> <<>>, advances |-> 0]
    /\ OthersIdle

SearchAdvanceAct ==
    /\ cursorObs.pc = "live"
    /\ cursorObs.k < Len(cursorObs.src) + 1
    /\ cursor' = ConvertAdvance(cursor)
    /\ cursorObs' = [cursorObs EXCEPT !.k = @ + 1]
    /\ UNCHANGED <<fuseVars, chainVars, winVars>>

FindAct ==
    /\ cursorObs.pc = "live"
    /\ cursor' = ConvertFind(cursor, cursorObs.f, <<>>).it
    /\ cursorObs' = [cursorObs EXCEPT
                       !.pc = "find", !.pre = Some(cursor),
                       !.ret = ConvertFind(cursor, cursorObs.f, <<>>).ret,
                       !.calls = ConvertFind(cursor, cursorObs.f, <<>>).calls]
    /\ UNCHANGED <<fuseVars, chainVars, winVars>>

PositionAct ==
    /\ cursorObs.pc = "live"
    /\ cursor' = ConvertPosition(cursor, cursorObs.f, 0, <<>>).it
    /\ cursorObs' =
         [cursorObs EXCEPT
            !.pc = "position", !.pre = Some(cursor),
            !.ret = ConvertPosition(cursor, cursorObs.f, 0, <<>>).ret,
            !.calls = ConvertPosition(cursor, cursorObs.f, 0, <<>>).calls]
    /\ UNCHANGED <<fuseVars, chainVars, winVars>>

AllAct ==
    /\ cursorObs.pc = "live"
    /\ cursor' = ConvertAll(cursor, cursorObs.f).it
    /\ cursorObs' = [cursorObs EXCEPT
                       !.pc = "all", !.pre = Some(cursor),
                       !.ret = Some(ConvertAll(cursor, cursorObs.f).ret),
                       !.calls = ConvertAll(cursor, cursorObs.f).calls]
    /\ UNCHANGED <<fuseVars, chainVars, winVars>>

AnyAct ==
    /\ cursorObs.pc = "live"
    /\ cursor' = ConvertAny(cursor, cursorObs.f).it
    /\ cursorObs' = [cursorObs EXCEPT
                       !.pc = "any", !.pre = Some(cursor),
                       !.ret = Some(ConvertAny(cursor, cursorObs.f).ret),
                       !.calls = ConvertAny(cursor, cursorObs.f).calls]
    /\ UNCHANGED <<fuseVars, chainVars, winVars>>

NthAct ==
    /\ cursorObs.pc = "live"
    /\ \E n \in 0..(Len(cursorObs.src) + 1) :
         /\ cursor' = [it |-> ConvertNth(cursor, n).it.it,
                       item |-> ConvertNth(cursor, n).it.item]
         /\ cursorObs' = [cursorObs EXCEPT
                            !.pc = "nth", !.pre = Some(cursor), !.n = n,
                            !.ret = ConvertNth(cursor, n).ret,
                            !.advances = ConvertNth(cursor, n).advances]
    /\ UNCHANGED <<fuseVars, chainVars, winVars>>

NextSearch ==
    \/ SearchAdvanceAct
    \/ FindAct
    \/ PositionAct
    \/ AllAct
    \/ AnyAct
    \/ NthAct

SpecSearch == InitSearch /\ [][NextSearch]_vars

\* the elements the k advances before the call have left
SearchRest ==
    IF cursorObs.k >= Len(cursorObs.src) THEN <<>>
    ELSE SubSeq(cursorObs.src, cursorObs.k + 1, Len(cursorObs.src))

\* the cursor stands on the j-th of the elements rest, the later ones
\* unconsumed, or is exhausted when there is no j-th
StandsOn(rest, j) ==
    IF j <= Len(rest)
    THEN cursor.item = Some(rest[j])
           /\ cursor.it = SubSeq(rest, j + 1, Len(rest))
    ELSE cursor.item = None /\ cursor.it = <<>>

\* C28: position(p) returns the 0-based index, from the current position,
\* of the first remaining element satisfying p and find(p) that element;
\* p is called on the elements up to it only and the cursor is left on it,
\* the later elements unconsumed; with no match both return None and the
\* cursor is exhausted.
FindShortCircuits ==
    LET rest == SearchRest
        j    == FirstFailing(rest, Vals \ cursorObs.f)
    IN  cursorObs.pc \in {"find", "position"} =>
          /\ StandsOn(rest, j)
          /\ cursorObs.calls = SubSeq(rest, 1, Min(j, Len(rest)))
          /\ cursorObs.ret
               = IF j > Len(rest) THEN None
                 ELSE IF cursorObs.pc = "find" THEN Some(rest[j])
                 ELSE Some(j - 1)

\* position found a match at index 1 or later with elements left behind it,
\* on a cursor that had been advanced
PositionStoppedEarly ==
    /\ cursorObs.pc = "position"
    /\ cursorObs.k >= 1
    /\ IsSome(cursorObs.ret)
    /\ Unwrap(cursorObs.ret) >= 1
    /\ cursor.it # <<>>

\* C29: all(p) is true iff every remaining element satisfies p and any(p)
\* iff some remaining element does, so any(p) = not all(not p); each stops
\* on the first deciding element and calls p once on each element up to it.
AllAnyDual ==
    LET rest == SearchRest
        bad  == FirstFailing(rest, cursorObs.f)
        good == FirstFailing(rest, Vals \ cursorObs.f)
    IN  /\ cursorObs.pc = "all" =>
             /\ cursorObs.ret
                  = Some(\A i \in 1..Len(rest) : rest[i] \in cursorObs.f)
             /\ cursorObs.calls = SubSeq(rest, 1, Min(bad, Len(rest)))
             /\ StandsOn(rest, bad)
        /\ cursorObs.pc = "any" =>
             /\ cursorObs.ret
                  = Some(\E i \in 1..Len(rest) : rest[i] \in cursorObs.f)
             /\ cursorObs.ret
                  = Some(~ConvertAll(Unwrap(cursorObs.pre),
                                     Vals \ cursorObs.f).ret)
             /\ cursorObs.calls = SubSeq(rest, 1, Min(good, Len(rest)))
             /\ StandsOn(rest, good)

\* any found its element after a non-matching one, with elements left
\* behind it, on a cursor that had been advanced
AnyStoppedEarly ==
    /\ cursorObs.pc = "any"
    /\ cursorObs.k >= 1
    /\ cursorObs.ret = Some(TRUE)
    /\ Len(cursorObs.calls) >= 2
    /\ cursor.it # <<>>

\* C30: on a cursor with r remaining elements nth(n) returns the element
\* at 0-based index n when n < r and None when n >= r, leaves the cursor
\* there, and makes min(n, r) + 1 advances.
NthConsumes ==
    LET rest == SearchRest
    IN  cursorObs.pc = "nth" =>
          /\ cursorObs.ret = NthOrNone(rest, cursorObs.n + 1)
          /\ cursorObs.advances = Min(cursorObs.n, Len(rest)) + 1
          /\ StandsOn(rest, cursorObs.n + 1)

\* nth was asked for more than the elements left, on a cursor that had
\* been advanced and still had some
NthPastEnd ==
    /\ cursorObs.pc = "nth"
    /\ cursorObs.k >= 1
    /\ Len(SearchRest) >= 1
    /\ cursorObs.n > Len(SearchRest)

(***************************************************************************)
(* get(&self) on every source and combinator modelled above.  A cursor of  *)
(* each kind is driven by advance() with get() calls in between; a twin    *)
(* of it is advanced in step and never read.                               *)
(***************************************************************************)
PeekKinds ==
    {"convert", "fuse", "chain", "flatten", "flat_map", "take", "skip",
     "skip_while", "take_while", "filter", "inspect", "map_ref", "rev",
     "once", "once_with", "successors", "repeat", "repeat_with",
     "windows_mut"}

\* the kinds built from a number n and those built from a predicate f
PeekNumbered ==
    {"take", "skip", "once", "once_with", "successors", "repeat",
     "windows_mut"}
PeekPredicated == {"skip_while", "take_while", "filter"}

\* the closure |count| if count < 3 { Some(count + 1) } else { None }
SuccBelowThree == [v \in Vals |-> IF v < 3 THEN Some(v + 1) ELSE None]

\* the constructors, over the source src
PeekNew(kind, src, n, f) ==
    CASE kind = "convert" -> ConvertNew(src)
      [] kind = "fuse" -> FuseNew(ItNew(FiniteScript(src)))
      [] kind = "chain" -> ChainNew(ConvertNew(src), ConvertNew(Reverse(src)))
      [] kind = "flatten" ->
           FlattenNew(ConvertNew(<<ConvertNew(src), ConvertNew(<<>>),
                                   ConvertNew(src)>>))
      [] kind = "flat_map" -> FlatMapNew(ConvertNew(<<src, <<>>, src>>))
      [] kind = "take" -> TakeNew(ConvertNew(src), n)
      [] kind = "skip" -> SkipNew(ConvertNew(src), n)
      [] kind = "skip_while" -> SkipWhileNew(ConvertNew(src), f)
      [] kind = "take_while" -> TakeWhileNew(ConvertNew(src), f)
      [] kind = "filter" -> FilterNew(ConvertNew(src), f)
      [] kind = "inspect" -> InspectNew(ConvertNew(src))
      [] kind = "map_ref" ->
           MapRefNew(ConvertNew([i \in 1..Len(src) |-> Foo(src[i])]))
      [] kind = "rev" -> RevNew(ConvertNew(src))
      [] kind = "once" -> OnceNew(n)
      [] kind = "once_with" -> OnceWithNew(n)
      [] kind = "successors" -> SuccessorsNew(Some(n), SuccBelowThree)
      [] kind = "repeat" -> RepeatNew(n)
      [] kind = "repeat_with" -> RepeatWithNew(src \o [i \in 1..(MaxDe + 2) |-> i % 4])
      [] kind = "windows_mut" -> Unwrap(windows_mut(Len(src), n + 1))

\* advance(&mut self)
PeekAdvance(kind, c) ==
    CASE kind = "convert" -> ConvertAdvance(c)
      [] kind = "fuse" -> FuseAdvance(c)
      [] kind = "chain" -> ChainAdvance(c)
      [] kind = "flatten" -> FlattenAdvance(c)
      [] kind = "flat_map" -> FlatMapAdvance(c).fm
      [] kind = "take" -> TakeAdvance(c)
      [] kind = "skip" -> SkipAdvance(c)
      [] kind = "skip_while" -> SkipWhileAdvance(c)
      [] kind = "take_while" -> TakeWhileAdvance(c)
      [] kind = "filter" -> FilterAdvance(c)
      [] kind = "inspect" -> InspectAdvance(c)
      [] kind = "map_ref" -> MapRefAdvance(c).m
      [] kind = "rev" -> RevConvertAdvance(c)
      [] kind = "once" -> OnceAdvance(c)
      [] kind = "once_with" -> OnceWithAdvance(c).o
      [] kind = "successors" -> SuccessorsAdvance(c).s
      [] kind = "repeat" -> RepeatAdvance(c)
      [] kind = "repeat_with" -> RepeatWithAdvance(c).r
      [] kind = "windows_mut" -> WinAdvance(c)

\* the value get() returns
PeekValue(kind, c) ==
    CASE kind = "convert" -> ConvertGet(c)
      [] kind = "fuse" -> FuseGet(c)
      [] kind = "chain" -> ChainGet(c)
      [] kind = "flatten" -> FlattenGet(c)
      [] kind = "flat_map" -> FlatMapGet(c)
      [] kind = "take" -> TakeGet(c)
      [] kind = "skip" -> SkipGet(c)
      [] kind = "skip_while" -> SkipWhileGet(c)
      [] kind = "take_while" -> TakeWhileGet(c)
      [] kind = "filter" -> FilterGet(c)
      [] kind = "inspect" -> InspectGet(c)
      [] kind = "map_ref" -> MapRefGet(c).ret
      [] kind = "rev" -> RevConvertGet(c)
      [] kind = "once" -> OnceGet(c)
      [] kind = "once_with" -> OnceWithGet(c)
      [] kind = "successors" -> SuccessorsGet(c)
      [] kind = "repeat" -> RepeatGet(c)
      [] kind = "repeat_with" -> RepeatWithGet(c)
      [] kind = "windows_mut" -> WinGet(c)

\* a get that moves the cursor on, as next() does
PeekTakes(kind, c) ==
    [self |-> PeekAdvance(kind, c), ret |-> PeekValue(kind, c)]

\* get(&self): self is borrowed shared, no implementation holds a Cell, so
\* the cursor after the call is the cursor before it
Peek(kind, c) == [self |-> c, ret |-> PeekValue(kind, c)]

\* cursorObs: the kind, the advances made, the values the get() calls
\* since the last advance returned, and the twin
InitPeek ==
    /\ \E kind \in PeekKinds, src \in DeSeqs, n \in 0..2, f \in Preds :
         /\ kind \notin PeekNumbered => n = 0
         /\ kind \notin PeekPredicated => f = {}
         /\ cursor = PeekNew(kind, src, n, f)
         /\ cursorObs = [kind |-> kind, advances |-> 0, gets |-> <<>>,
                         twin |-> PeekNew(kind, src, n, f)]
    /\ OthersIdle

PeekAdvanceAct ==
    /\ cursorObs.advances < MaxDe + 2
    /\ cursor' = PeekAdvance(cursorObs.kind, cursor)
    /\ cursorObs' = [cursorObs EXCEPT
                       !.advances = @ + 1, !.gets = <<>>,
                       !.twin = PeekAdvance(cursorObs.kind, @)]
    /\ UNCHANGED <<fuseVars, chainVars, winVars>>

PeekGetAct ==
    /\ Len(cursorObs.gets) < MaxGets
    /\ cursor' = Peek(cursorObs.kind, cursor).self
    /\ cursorObs' = [cursorObs EXCEPT
                       !.gets = Append(@, Peek(cursorObs.kind, cursor).ret)]
    /\ UNCHANGED <<fuseVars, chainVars, winVars>>

NextPeek == PeekAdvanceAct \/ PeekGetAct

SpecPeek == InitPeek /\ [][NextPeek]_vars

FuseOps == {"advance", "next", "get", "is_done", "count", "fold"}

\* the upstream methods a Fuse method calls, in order
FuseUpstreamCalls(op, f) ==
    CASE op = "advance" ->
           IF f.state \in {"Start", "Middle"}
           THEN <<"advance", "is_done">> ELSE <<>>
      [] op = "next" ->
           IF f.state \in {"Start", "Middle"} THEN <<"next">> ELSE <<>>
      [] op = "get" -> IF f.state = "Middle" THEN <<"get">> ELSE <<>>
      [] op = "is_done" -> <<>>
      [] op = "count" ->
           IF f.state \in {"Start", "Middle"} THEN <<"count">> ELSE <<>>
      [] op = "fold" ->
           IF f.state \in {"Start", "Middle"} THEN <<"fold">> ELSE <<>>

\* StreamingIterator::fold, the default body, on the scripted upstream
RECURSIVE ItDefaultFold(_, _)
ItDefaultFold(it, acc) ==
    LET n == ItNext(it)
    IN  IF IsSome(n.ret)
        THEN ItDefaultFold(n.it, Combine(acc, Unwrap(n.ret)))
        ELSE acc

\* Fuse::fold
FuseFold(f, init) ==
    CASE f.state \in {"Start", "Middle"} -> ItDefaultFold(f.it, init)
      [] f.state = "End" -> init

\* the upstream's next() returns None before its script runs out
ItTerminates(it) ==
    \E i \in (it.pos + 1)..Len(it.script) : IsNone(it.script[i])

\* cursor is the Fuse; cursorObs the number of calls made on it, the number
\* of upstream calls they made, the last method called with its result,
\* the fold's initial value, and whether the Fuse was consumed
InitFuseOps ==
    /\ \E script \in Scripts, init \in FoldInits :
         /\ cursor = FuseNew(ItNew(script))
         /\ cursorObs = [ops |-> 0, up |-> 0, op |-> "new", ret |-> None,
                         init |-> init, gone |-> FALSE]
    /\ OthersIdle

FuseOpsObserve(op, ret, gone) ==
    [cursorObs EXCEPT
       !.ops = @ + 1,
       !.up = @ + Len(FuseUpstreamCalls(op, cursor)),
       !.op = op, !.ret = ret, !.gone = gone]

FuseOpsCallable ==
    /\ ~cursorObs.gone
    /\ cursorObs.ops < MaxFuseCalls

FuseOpsAdvanceAct ==
    /\ FuseOpsCallable
    /\ FuseCallsUpstream(cursor) => ItCanAdvance(cursor.it)
    /\ cursor' = FuseAdvance(cursor)
    /\ cursorObs' = FuseOpsObserve("advance", None, FALSE)
    /\ UNCHANGED <<fuseVars, chainVars, winVars>>

FuseOpsNextAct ==
    /\ FuseOpsCallable
    /\ FuseCallsUpstream(cursor) => ItCanAdvance(cursor.it)
    /\ cursor' = FuseNext(cursor).f
    /\ cursorObs' = FuseOpsObserve("next", FuseNext(cursor).ret, FALSE)
    /\ UNCHANGED <<fuseVars, chainVars, winVars>>

FuseOpsGetAct ==
    /\ FuseOpsCallable
    /\ cursorObs.op # "get"
    /\ cursor' = cursor
    /\ cursorObs' = FuseOpsObserve("get", FuseGet(cursor), FALSE)
    /\ UNCHANGED <<fuseVars, chainVars, winVars>>

FuseOpsIsDoneAct ==
    /\ FuseOpsCallable
    /\ cursorObs.op # "is_done"
    /\ cursor' = cursor
    /\ cursorObs' = FuseOpsObserve("is_done", FuseIsDone(cursor), FALSE)
    /\ UNCHANGED <<fuseVars, chainVars, winVars>>

FuseOpsCountAct ==
    /\ FuseOpsCallable
    /\ FuseCallsUpstream(cursor) => ItTerminates(cursor.it)
    /\ cursor' = cursor
    /\ cursorObs' = FuseOpsObserve("count", FuseCount(cursor), TRUE)
    /\ UNCHANGED <<fuseVars, chainVars, winVars>>

FuseOpsFoldAct ==
    /\ FuseOpsCallable
    /\ FuseCallsUpstream(cursor) => ItTerminates(cursor.it)
    /\ cursor' = cursor
    /\ cursorObs' = FuseOpsObserve("fold", FuseFold(cursor, cursorObs.init),
                                   TRUE)
    /\ UNCHANGED <<fuseVars, chainVars, winVars>>

NextFuseOps ==
    \/ FuseOpsAdvanceAct
    \/ FuseOpsNextAct
    \/ FuseOpsGetAct
    \/ FuseOpsIsDoneAct
    \/ FuseOpsCountAct
    \/ FuseOpsFoldAct

SpecFuseOps == InitFuseOps /\ [][NextFuseOps]_vars

\* the state changes of one advance() or next()
FuseTransitions ==
    {<<"Start", "Middle">>, <<"Start", "End">>, <<"Middle", "Middle">>,
     <<"Middle", "End">>, <<"End", "End">>}

\* C32: a call on a Fuse in state End calls no upstream method and leaves
\* the Fuse, its upstream included, as it was: get() is None, is_done() is
\* true, count() is 0 and fold returns its initial value.  An advance() or
\* next() changes the state only Start->Middle, Start->End,
\* Middle->Middle, Middle->End, and no other method changes it.
FuseEndStep ==
    /\ cursor.state = "End" =>
         /\ cursor' = cursor
         /\ cursorObs'.up = cursorObs.up
         /\ cursorObs'.op \in {"get", "next"} => cursorObs'.ret = None
         /\ cursorObs'.op = "is_done" => cursorObs'.ret = TRUE
         /\ cursorObs'.op = "count" => cursorObs'.ret = 0
         /\ cursorObs'.op = "fold" => cursorObs'.ret = cursorObs.init
    /\ IF cursorObs'.op \in {"advance", "next"}
       THEN <<cursor.state, cursor'.state>> \in FuseTransitions
       ELSE cursor'.state = cursor.state

FuseEndIsNoOp == [][FuseEndStep]_vars

\* a Fuse in state End whose upstream would yield an element again was
\* folded after at least two earlier calls
FuseEndFolded ==
    /\ cursor.state = "End"
    /\ cursorObs.op = "fold"
    /\ cursorObs.ops >= 3
    /\ ItCanAdvance(cursor.it)
    /\ IsSome(ItGet(ItAdvance(cursor.it)))

(***************************************************************************)
(* Take: the allowance n and the upstream, call by call                    *)
(***************************************************************************)
\* C33: of the advance calls on take(n), the first n each advance the
\* upstream once and lower the allowance by one; every later one leaves
\* the upstream and the allowance (0, never below) as they are and sets
\* done; and after n + 1 or more calls get() is None whatever the upstream
\* holds.
TakeAllowanceStep ==
    /\ IF Len(cursorObs.hist) < cursorObs.n
       THEN /\ cursor'.it = ConvertAdvance(cursor.it)
            /\ cursor'.n = cursor.n - 1
            /\ cursor'.done = cursor.done
       ELSE /\ cursor'.it = cursor.it
            /\ cursor'.n = cursor.n
            /\ cursor'.done
    /\ cursor'.n = Max(cursorObs.n - Len(cursorObs'.hist), 0)
    /\ Len(cursorObs'.hist) >= cursorObs.n + 1 => TakeGet(cursor') = None

TakeAllowance == [][TakeAllowanceStep]_vars

\* take(n), n >= 1, advanced n + 2 times over an upstream that still
\* stands on an element
TakeAllowanceSpent ==
    /\ cursorObs.n >= 1
    /\ Len(cursorObs.hist) = cursorObs.n + 2
    /\ cursor.n = 0
    /\ cursor.done
    /\ IsSome(ConvertGet(cursor.it))

(***************************************************************************)
(* TakeWhile: the calls of the predicate, call by call                     *)
(***************************************************************************)
\* the upstream elements the predicate has been called with after k calls
\* of advance() or next(): one per element, the first failing one included
TakeWhileChecked(src, f, k) ==
    SubSeq(src, 1, Min(k, Min(FirstFailing(src, f), Len(src))))

\* C34: take_while(p) calls p exactly once per upstream element up to and
\* including the first failing one; once p has failed neither advance()
\* nor next() advances the upstream or calls p again; and next() calls p
\* with the same arguments, and leaves the same state, as advance().
TakeWhileStopsStep ==
    /\ cursorObs'.calls
         = TakeWhileChecked(cursorObs.src, cursorObs.f, Len(cursorObs'.hist))
    /\ cursor.done =>
         /\ cursor' = cursor
         /\ cursorObs'.calls = cursorObs.calls
    /\ TakeWhileNext(cursor).calls = TakeWhileAdvanceCalls(cursor)
    /\ TakeWhileNext(cursor).tw = TakeWhileAdvance(cursor)

TakeWhileStops == [][TakeWhileStopsStep]_vars

\* p failed on the second element, the upstream holds a further element
\* satisfying p, and two more calls were made: p was called twice
TakeWhileCheckedTwice ==
    /\ FirstFailing(cursorObs.src, cursorObs.f) = 2
    /\ Len(cursorObs.src) >= 3
    /\ cursorObs.src[3] \in cursorObs.f
    /\ Len(cursorObs.hist) = 4
    /\ Len(cursorObs.calls) = 2
    /\ cursor.done

(***************************************************************************)
(* Chain::fold and Chain::rfold against the default bodies.  The closure   *)
(* appends the element it is given, so a fold's result is the sequence of  *)
(* elements visited.                                                       *)
(***************************************************************************)
\* a fold that takes BothBackward for Front
ChainFoldSkipsB(c, init) ==
    LET accum == IF c.state = "Back" THEN init ELSE ConvertFold(c.a, init)
    IN  IF c.state \in {"Front", "BothBackward"}
        THEN accum ELSE ConvertFold(c.b, accum)

\* Chain::fold
ChainFold(c, init) ==
    LET accum == IF c.state = "Back" THEN init ELSE ConvertFold(c.a, init)
    IN  IF c.state = "Front" THEN accum ELSE ConvertFold(c.b, accum)

\* Chain::rfold
ChainRFold(c, init) ==
    LET accum == IF c.state = "Front" THEN init ELSE ConvertRFold(c.b, init)
    IN  IF c.state = "Back" THEN accum ELSE ConvertRFold(c.a, accum)

\* StreamingIterator::fold, the default body, on a Chain
RECURSIVE ChainDefaultFold(_, _)
ChainDefaultFold(c, acc) ==
    LET c2 == ChainAdvance(c)
    IN  IF IsSome(ChainGet(c2))
        THEN ChainDefaultFold(c2, Append(acc, Unwrap(ChainGet(c2))))
        ELSE acc

\* DoubleEndedStreamingIterator::rfold, the default body, on a Chain
RECURSIVE ChainDefaultRFold(_, _)
ChainDefaultRFold(c, acc) ==
    LET c2 == ChainAdvanceBack(c)
    IN  IF IsSome(ChainGet(c2))
        THEN ChainDefaultRFold(c2, Append(acc, Unwrap(ChainGet(c2))))
        ELSE acc

\* cursor is the Chain; cursorObs the two sources, the advance and
\* advance_back calls made, the state the Chain was folded in, and the
\* elements the default body and the override visited
InitChainFold ==
    /\ \E m \in 0..MaxLen, n \in 0..MaxLen :
         /\ cursor = ChainNew(ConvertNew(ItemsA(m)), ConvertNew(ItemsB(n)))
         /\ cursorObs = [srcA |-> ItemsA(m), srcB |-> ItemsB(n),
                         nf |-> 0, nb |-> 0, pc |-> "live",
                         state |-> "BothForward",
                         byDefault |-> <<>>, byOverride |-> <<>>]
    /\ OthersIdle

ChainFoldLive ==
    /\ cursorObs.pc = "live"
    /\ cursorObs.nf + cursorObs.nb
         < Len(cursorObs.srcA) + Len(cursorObs.srcB) + 1

ChainFoldAdvanceAct ==
    /\ ChainFoldLive
    /\ cursor' = ChainAdvance(cursor)
    /\ cursorObs' = [cursorObs EXCEPT !.nf = @ + 1, !.state = cursor'.state]
    /\ UNCHANGED <<fuseVars, chainVars, winVars>>

ChainFoldAdvanceBackAct ==
    /\ ChainFoldLive
    /\ cursor' = ChainAdvanceBack(cursor)
    /\ cursorObs' = [cursorObs EXCEPT !.nb = @ + 1, !.state = cursor'.state]
    /\ UNCHANGED <<fuseVars, chainVars, winVars>>

ChainFoldAct ==
    /\ cursorObs.pc = "live"
    /\ cursorObs' = [cursorObs EXCEPT
                       !.pc = "fold",
                       !.byDefault = ChainDefaultFold(cursor, <<>>),
                       !.byOverride = ChainFold(cursor, <<>>)]
    /\ cursor' = None
    /\ UNCHANGED <<fuseVars, chainVars, winVars>>

ChainRFoldAct ==
    /\ cursorObs.pc = "live"
    /\ cursorObs' = [cursorObs EXCEPT
                       !.pc = "rfold",
                       !.byDefault = ChainDefaultRFold(cursor, <<>>),
                       !.byOverride = ChainRFold(cursor, <<>>)]
    /\ cursor' = None
    /\ UNCHANGED <<fuseVars, chainVars, winVars>>

NextChainFold ==
    \/ ChainFoldAdvanceAct
    \/ ChainFoldAdvanceBackAct
    \/ ChainFoldAct
    \/ ChainRFoldAct

SpecChainFold == InitChainFold /\ [][NextChainFold]_vars

\* the elements of a then b no advance or advance_back has yielded
ChainRemaining ==
    Remaining(cursorObs.srcA \o cursorObs.srcB, cursorObs.nf, cursorObs.nb)

\* C35: in each of the four states, after any interleaving of advance and
\* advance_back, Chain::fold visits the not-yet-yielded elements of a then
\* b in forward order and Chain::rfold visits them backward, b first, each
\* as the default body (repeated next() / next_back()) does.
ChainFoldsAsDefault ==
    /\ cursorObs.pc = "fold" =>
         /\ cursorObs.byOverride = cursorObs.byDefault
         /\ cursorObs.byOverride = ChainRemaining
    /\ cursorObs.pc = "rfold" =>
         /\ cursorObs.byOverride = cursorObs.byDefault
         /\ cursorObs.byOverride = Reverse(ChainRemaining)

\* a Chain in state BothBackward was folded forward over elements of both
\* a and b, after calls in both directions
ChainFoldedBackward ==
    /\ cursorObs.pc = "fold"
    /\ cursorObs.state = "BothBackward"
    /\ cursorObs.nf >= 1
    /\ cursorObs.nb >= 1
    /\ \E i \in 1..(Len(cursorObs.byOverride) - 1) :
         /\ cursorObs.byOverride[i] < 10
         /\ cursorObs.byOverride[i + 1] >= 10

(***************************************************************************)
(* Skip::fold and SkipWhile::fold against the default body.  The closure   *)
(* appends the element it is given.                                        *)
(***************************************************************************)
\* a fold that skips with nth(n)
SkipFoldSkipsOneMore(s, init) ==
    IF s.n > 0 /\ IsNone(ConvertNth(s.it, s.n).ret)
    THEN init
    ELSE ConvertFold(IF s.n > 0 THEN ConvertNth(s.it, s.n).it ELSE s.it,
                     init)

\* Skip::fold
SkipFold(s, init) ==
    IF s.n > 0 /\ IsNone(ConvertNth(s.it, s.n - 1).ret)
    THEN init
    ELSE ConvertFold(IF s.n > 0 THEN ConvertNth(s.it, s.n - 1).it ELSE s.it,
                     init)

\* SkipWhile::fold; its self.next() is advance() then get()
SkipWhileFold(sw, init) ==
    IF ~sw.done
    THEN LET sw2 == SkipWhileAdvance(sw)
         IN  IF IsSome(SkipWhileGet(sw2))
             THEN ConvertFold(sw2.it, Append(init, Unwrap(SkipWhileGet(sw2))))
             ELSE init
    ELSE ConvertFold(sw.it, init)

\* StreamingIterator::fold, the default body, on a Skip
RECURSIVE SkipDefaultFold(_, _)
SkipDefaultFold(s, acc) ==
    LET s2 == SkipAdvance(s)
    IN  IF IsSome(SkipGet(s2))
        THEN SkipDefaultFold(s2, Append(acc, Unwrap(SkipGet(s2))))
        ELSE acc

\* StreamingIterator::fold, the default body, on a SkipWhile
RECURSIVE SkipWhileDefaultFold(_, _)
SkipWhileDefaultFold(sw, acc) ==
    LET sw2 == SkipWhileAdvance(sw)
    IN  IF IsSome(SkipWhileGet(sw2))
        THEN SkipWhileDefaultFold(sw2, Append(acc, Unwrap(SkipWhileGet(sw2))))
        ELSE acc

\* cursor is a Skip or a SkipWhile over convert(src); cursorObs the kind,
\* the source, n or f, the advances made, and the elements the default
\* body and the override visited
InitSkipFold ==
    /\ \E kind \in {"skip", "skip_while"}, src \in UpSeqs,
          n \in 0..(MaxUp + 1), f \in Preds :
         /\ kind = "skip" => f = {}
         /\ kind = "skip_while" => n = 0
         /\ cursor = IF kind = "skip"
                     THEN SkipNew(ConvertNew(src), n)
                     ELSE SkipWhileNew(ConvertNew(src), f)
         /\ cursorObs = [kind |-> kind, src |-> src, n |-> n, f |-> f,
                         adv |-> 0, pc |-> "live",
                         byDefault |-> <<>>, byOverride |-> <<>>]
    /\ OthersIdle

SkipFoldAdvanceAct ==
    /\ cursorObs.pc = "live"
    /\ cursorObs.adv < Len(cursorObs.src) + 1
    /\ cursor' = IF cursorObs.kind = "skip"
                 THEN SkipAdvance(cursor) ELSE SkipWhileAdvance(cursor)
    /\ cursorObs' = [cursorObs EXCEPT !.adv = @ + 1]
    /\ UNCHANGED <<fuseVars, chainVars, winVars>>

SkipFoldAct ==
    /\ cursorObs.pc = "live"
    /\ cursorObs.kind = "skip"
    /\ cursorObs' = [cursorObs EXCEPT
                       !.pc = "fold",
                       !.byDefault = SkipDefaultFold(cursor, <<>>),
                       !.byOverride = SkipFold(cursor, <<>>)]
    /\ cursor' = None
    /\ UNCHANGED <<fuseVars, chainVars, winVars>>

SkipWhileFoldAct ==
    /\ cursorObs.pc = "live"
    /\ cursorObs.kind = "skip_while"
    /\ cursorObs' = [cursorObs EXCEPT
                       !.pc = "fold",
                       !.byDefault = SkipWhileDefaultFold(cursor, <<>>),
                       !.byOverride = SkipWhileFold(cursor, <<>>)]
    /\ cursor' = None
    /\ UNCHANGED <<fuseVars, chainVars, winVars>>

NextSkipFold == SkipFoldAdvanceAct \/ SkipFoldAct \/ SkipWhileFoldAct

SpecSkipFold == InitSkipFold /\ [][NextSkipFold]_vars

\* the elements of src from index i on
SuffixFrom(src, i) ==
    IF i > Len(src) THEN <<>> ELSE SubSeq(src, i, Len(src))

\* C36: Skip::fold on skip(n) over L elements visits the elements of
\* indices n..L-1 (none when n >= L) before the first advance and the
\* elements after the current one after an advance; SkipWhile::fold visits
\* the suffix starting at the first non-matching element, after an advance
\* the elements after the current one; each as the default fold does.
SkipFoldsAsDefault ==
    cursorObs.pc = "fold" =>
      /\ cursorObs.byOverride = cursorObs.byDefault
      /\ cursorObs.kind = "skip" =>
           cursorObs.byOverride
             = SuffixFrom(cursorObs.src, cursorObs.n + cursorObs.adv + 1)
      /\ cursorObs.kind = "skip_while" =>
           cursorObs.byOverride
             = SuffixFrom(cursorObs.src,
                          FirstFailing(cursorObs.src, cursorObs.f)
                            + cursorObs.adv)

\* skip(2) over four elements was folded before any advance
SkipFoldedFresh ==
    /\ cursorObs.pc = "fold"
    /\ cursorObs.kind = "skip"
    /\ cursorObs.n = 2
    /\ cursorObs.adv = 0
    /\ Len(cursorObs.src) = 4
    /\ Len(cursorObs.byOverride) = 2

(***************************************************************************)
(* The overridden next methods of Fuse, TakeWhile and WindowsMut against   *)
(* advance followed by get.                                                *)
(***************************************************************************)
NextKinds == {"fuse", "take_while", "windows_mut"}

\* the methods compared: next on all three, the other three on WindowsMut
NextMethods(kind) ==
    IF kind = "windows_mut"
    THEN {"next", "next_mut", "next_back", "next_back_mut"}
    ELSE {"next"}

\* the override: the cursor after the call and the value returned
NextOverride(kind, method, c) ==
    CASE kind = "fuse" -> [self |-> FuseNext(c).f, ret |-> FuseNext(c).ret]
      [] kind = "take_while" ->
           [self |-> TakeWhileNext(c).tw, ret |-> TakeWhileNext(c).ret]
      [] kind = "windows_mut" /\ method = "next" ->
           [self |-> WinNext(c).w, ret |-> WinNext(c).ret]
      [] kind = "windows_mut" /\ method = "next_mut" ->
           [self |-> WinNextMut(c).w, ret |-> WinNextMut(c).ret]
      [] kind = "windows_mut" /\ method = "next_back" ->
           [self |-> WinNextBack(c).w, ret |-> WinNextBack(c).ret]
      [] kind = "windows_mut" /\ method = "next_back_mut" ->
           [self |-> WinNextBackMut(c).w, ret |-> WinNextBackMut(c).ret]

\* the default bodies: advance() or advance_back(), then get() or get_mut()
NextDefault(kind, method, c) ==
    CASE kind = "fuse" ->
           [self |-> FuseAdvance(c), ret |-> FuseGet(FuseAdvance(c))]
      [] kind = "take_while" ->
           [self |-> TakeWhileAdvance(c),
            ret |-> TakeWhileGet(TakeWhileAdvance(c))]
      [] kind = "windows_mut" /\ method = "next" ->
           [self |-> WinAdvance(c), ret |-> WinGet(WinAdvance(c))]
      [] kind = "windows_mut" /\ method = "next_mut" ->
           [self |-> WinAdvance(c), ret |-> WinGetMut(WinAdvance(c))]
      [] kind = "windows_mut" /\ method = "next_back" ->
           [self |-> WinAdvanceBack(c), ret |-> WinGet(WinAdvanceBack(c))]
      [] kind = "windows_mut" /\ method = "next_back_mut" ->
           [self |-> WinAdvanceBack(c),
            ret |-> WinGetMut(WinAdvanceBack(c))]

NextObsInit(kind) ==
    [kind |-> kind, ops |-> 0, method |-> "none", override |-> None,
     default |-> None]

\* cursor is a Fuse over any upstream, a TakeWhile or a WindowsMut;
\* cursorObs its kind, the calls made, the last method called, and what
\* the override and the default body of that method made of the state
\* before the call
InitNext ==
    /\ \/ \E script \in Scripts :
            /\ cursor = FuseNew(ItNew(script))
            /\ cursorObs = NextObsInit("fuse")
       \/ \E src \in DeSeqs, f \in Preds :
            /\ cursor = TakeWhileNew(ConvertNew(src), f)
            /\ cursorObs = NextObsInit("take_while")
       \/ \E len \in 0..MaxBuf, size \in 1..MaxLen :
            /\ cursor = Unwrap(windows_mut(len, size))
            /\ cursorObs = NextObsInit("windows_mut")
    /\ OthersIdle

NextCallable ==
    /\ cursorObs.ops < MaxFuseCalls
    /\ (cursorObs.kind = "fuse" /\ FuseCallsUpstream(cursor))
         => ItCanAdvance(cursor.it)

\* a call of the overridden method
NextOverrideAct ==
    /\ NextCallable
    /\ \E method \in NextMethods(cursorObs.kind) :
         /\ cursor' = NextOverride(cursorObs.kind, method, cursor).self
         /\ cursorObs' =
              [cursorObs EXCEPT
                 !.ops = @ + 1, !.method = method,
                 !.override =
                    Some(NextOverride(cursorObs.kind, method, cursor)),
                 !.default =
                    Some(NextDefault(cursorObs.kind, method, cursor))]
    /\ UNCHANGED <<fuseVars, chainVars, winVars>>

\* advance() or advance_back(), then get() or get_mut()
NextDefaultAct ==
    /\ NextCallable
    /\ \E method \in NextMethods(cursorObs.kind) :
         /\ cursor' = NextDefault(cursorObs.kind, method, cursor).self
         /\ cursorObs' =
              [cursorObs EXCEPT
                 !.ops = @ + 1, !.method = method,
                 !.override =
                    Some(NextOverride(cursorObs.kind, method, cursor)),
                 !.default =
                    Some(NextDefault(cursorObs.kind, method, cursor))]
    /\ UNCHANGED <<fuseVars, chainVars, winVars>>

NextNext == NextOverrideAct \/ NextDefaultAct

SpecNext == InitNext /\ [][NextNext]_vars

\* C37: from every reachable state the overridden next() of Fuse and of
\* TakeWhile, and next, next_mut, next_back and next_back_mut of
\* WindowsMut, return the value and leave the state that advance() (or
\* advance_back()) followed by get() (or get_mut()) does.
NextIsAdvanceThenGet == cursorObs.override = cursorObs.default

\* a Fuse in state Middle whose upstream reported the end was called, and
\* the call returned None
NextAtUpstreamEnd ==
    /\ cursorObs.kind = "fuse"
    /\ cursorObs.ops >= 2
    /\ cursor.state = "End"
    /\ IsSome(cursorObs.override)
    /\ IsNone(Unwrap(cursorObs.override).ret)
    /\ IsSome(ItGet([cursor.it EXCEPT !.pos = @ - 1]))

(***************************************************************************)
(* size_hint: a pair <<lower, upper>>, upper an Option                     *)
(***************************************************************************)
\* Convert::size_hint: the hint of the wrapped iterator, exact for the
\* slice and Vec iterators the sources are built from
ConvertSizeHint(c) == <<Len(c.it), Some(Len(c.it))>>

\* Option::map(|n| n.saturating_sub(k))
OptionSaturatingSub(o, k) ==
    IF IsSome(o) THEN Some(SaturatingSub(Unwrap(o), k)) ELSE None

\* Take::size_hint
TakeSizeHint(t) == <<Min(ConvertSizeHint(t.it)[1], t.n), Some(t.n)>>

\* a size_hint that passes the upstream's hint on
SkipSizeHintIgnoresN(s) == ConvertSizeHint(s.it)

\* Skip::size_hint
SkipSizeHint(s) ==
    <<SaturatingSub(ConvertSizeHint(s.it)[1], s.n),
      OptionSaturatingSub(ConvertSizeHint(s.it)[2], s.n)>>

\* SkipWhile::size_hint
SkipWhileSizeHint(sw) == <<0, ConvertSizeHint(sw.it)[2]>>

\* TakeWhile::size_hint
TakeWhileSizeHint(tw) ==
    <<0, IF tw.done THEN Some(0) ELSE ConvertSizeHint(tw.it)[2]>>

\* Filter::size_hint
FilterSizeHint(fl) == <<0, ConvertSizeHint(fl.it)[2]>>

\* Successors::size_hint
SuccessorsSizeHint(s) ==
    CASE s.first /\ IsSome(s.item) -> <<1, None>>
      [] ~s.first /\ IsSome(s.item) -> <<0, None>>
      [] IsNone(s.item) -> <<0, Some(0)>>

HintKinds ==
    {"take", "skip", "skip_while", "take_while", "filter", "once",
     "once_with", "successors", "windows_mut"}

\* size_hint(&self)
SizeHint(kind, c) ==
    CASE kind = "take" -> TakeSizeHint(c)
      [] kind = "skip" -> SkipSizeHint(c)
      [] kind = "skip_while" -> SkipWhileSizeHint(c)
      [] kind = "take_while" -> TakeWhileSizeHint(c)
      [] kind = "filter" -> FilterSizeHint(c)
      [] kind = "once" -> OnceSizeHint(c)
      [] kind = "once_with" -> OnceWithSizeHint(c)
      [] kind = "successors" -> SuccessorsSizeHint(c)
      [] kind = "windows_mut" -> WinSizeHint(c)

\* the number of further next() calls that return an element
RECURSIVE HintRemaining(_, _)
HintRemaining(kind, c) ==
    LET c2 == PeekAdvance(kind, c)
    IN  IF IsSome(PeekValue(kind, c2))
        THEN 1 + HintRemaining(kind, c2) ELSE 0

\* cursor is one of the adapters over convert(src) or one of the sources;
\* cursorObs its kind, the n it was built with, the advances made, and the
\* hint and the remaining length at the last size_hint() call
InitHint ==
    /\ \E kind \in HintKinds, src \in DeSeqs, n \in 0..2, f \in Preds :
         /\ kind \notin PeekNumbered => n = 0
         /\ kind \notin PeekPredicated => f = {}
         /\ cursor = PeekNew(kind, src, n, f)
         /\ cursorObs = [kind |-> kind, n |-> n, len |-> Len(src),
                         advances |-> 0, hint |-> None, remaining |-> 0]
    /\ OthersIdle

HintAdvanceAct ==
    /\ cursorObs.advances < MaxDe + 2
    /\ cursor' = PeekAdvance(cursorObs.kind, cursor)
    /\ cursorObs' = [cursorObs EXCEPT !.advances = @ + 1, !.hint = None,
                                      !.remaining = 0]
    /\ UNCHANGED <<fuseVars, chainVars, winVars>>

HintSizeHintAct ==
    /\ IsNone(cursorObs.hint)
    /\ cursor' = cursor
    /\ cursorObs' = [cursorObs EXCEPT
                       !.hint = Some(SizeHint(cursorObs.kind, cursor)),
                       !.remaining = HintRemaining(cursorObs.kind, cursor)]
    /\ UNCHANGED <<fuseVars, chainVars, winVars>>

NextHint == HintAdvanceAct \/ HintSizeHintAct

SpecHint == InitHint /\ [][NextHint]_vars

\* C38: in every reachable state of Take, Skip, SkipWhile, TakeWhile,
\* Filter, Once, OnceWith, Successors (and WindowsMut), over an upstream
\* with an exact hint, size_hint() = (lo, hi) bounds the number r of
\* further next() calls that return an element: lo <= r, and hi is None
\* or r <= hi; the subtractions of Skip::size_hint and WindowsMut::len
\* stop at 0, so lo and hi are never negative.
SizeHintBounds ==
    IsSome(cursorObs.hint) =>
      LET lo == Unwrap(cursorObs.hint)[1]
          hi == Unwrap(cursorObs.hint)[2]
      IN  /\ lo >= 0
          /\ lo <= cursorObs.remaining
          /\ IsSome(hi) =>
               /\ Unwrap(hi) >= 0
               /\ cursorObs.remaining <= Unwrap(hi)

\* skip(2) over a single element: the subtraction stops at 0
SkipHintSaturated ==
    /\ cursorObs.kind = "skip"
    /\ cursorObs.n = 2
    /\ cursorObs.len = 1
    /\ cursorObs.advances = 0
    /\ cursorObs.hint = Some(<<0, Some(0)>>)

(***************************************************************************)
(* Chain: which component each method calls                                *)
(***************************************************************************)
ChainOps == {"advance", "advance_back", "get", "is_done", "fold", "rfold"}

\* the calls a Chain method makes on its components, in order, each as
\* <<component, method>>
ChainUpstreamCalls(op, c) ==
    CASE op = "advance" ->
           (CASE c.state \in {"BothForward", "BothBackward"} ->
                   IF ConvertIsDone(ConvertAdvance(c.a))
                   THEN <<<<"a", "advance">>, <<"a", "is_done">>,
                          <<"b", "advance">>>>
                   ELSE <<<<"a", "advance">>, <<"a", "is_done">>>>
              [] c.state = "Front" -> <<<<"a", "advance">>>>
              [] c.state = "Back" -> <<<<"b", "advance">>>>)
      [] op = "advance_back" ->
           (CASE c.state \in {"BothForward", "BothBackward"} ->
                   IF ConvertIsDone(ConvertAdvanceBack(c.b))
                   THEN <<<<"b", "advance_back">>, <<"b", "is_done">>,
                          <<"a", "advance_back">>>>
                   ELSE <<<<"b", "advance_back">>, <<"b", "is_done">>>>
              [] c.state = "Front" -> <<<<"a", "advance_back">>>>
              [] c.state = "Back" -> <<<<"b", "advance_back">>>>)
      [] op \in {"get", "is_done"} ->
           IF c.state \in {"BothForward", "Front"}
           THEN <<<<"a", op>>>> ELSE <<<<"b", op>>>>
      [] op = "fold" ->
           (IF c.state = "Back" THEN <<>> ELSE <<<<"a", "fold">>>>)
             \o (IF c.state = "Front" THEN <<>> ELSE <<<<"b", "fold">>>>)
      [] op = "rfold" ->
           (IF c.state = "Front" THEN <<>> ELSE <<<<"b", "rfold">>>>)
             \o (IF c.state = "Back" THEN <<>> ELSE <<<<"a", "rfold">>>>)

\* the components a method calls
ChainTouches(op, c) ==
    {ChainUpstreamCalls(op, c)[i][1] :
       i \in 1..Len(ChainUpstreamCalls(op, c))}

\* the method the step called: advance, or advance_back (directly or as
\* Rev's advance)
ChainStepOp == IF chainObs'.last = "fwd" THEN "advance" ELSE "advance_back"

\* C39: a Chain leaves BothForward / BothBackward for Back only in an
\* advance that advanced a and found it done, b being advanced exactly
\* once in that call; for Front only in an advance_back that advanced b
\* from the back and found it done, a being advanced from the back exactly
\* once.  In Back no method calls a, in Front none calls b, and the state
\* stays Back, respectively Front.
ChainSideStep ==
    /\ (chain.state \in {"BothForward", "BothBackward"}
          /\ chain'.state = "Back") =>
         /\ ChainStepOp = "advance"
         /\ chain'.a = ConvertAdvance(chain.a)
         /\ ConvertIsDone(chain'.a)
         /\ chain'.b = ConvertAdvance(chain.b)
         /\ ChainUpstreamCalls("advance", chain)
              = <<<<"a", "advance">>, <<"a", "is_done">>, <<"b", "advance">>>>
    /\ (chain.state \in {"BothForward", "BothBackward"}
          /\ chain'.state = "Front") =>
         /\ ChainStepOp = "advance_back"
         /\ chain'.b = ConvertAdvanceBack(chain.b)
         /\ ConvertIsDone(chain'.b)
         /\ chain'.a = ConvertAdvanceBack(chain.a)
         /\ ChainUpstreamCalls("advance_back", chain)
              = <<<<"b", "advance_back">>, <<"b", "is_done">>,
                  <<"a", "advance_back">>>>
    /\ chain.state = "Back" =>
         /\ chain'.state = "Back"
         /\ chain'.a = chain.a
         /\ \A op \in ChainOps : ChainTouches(op, chain) \subseteq {"b"}
         /\ ChainGet(chain) = ConvertGet(chain.b)
         /\ ChainIsDone(chain) = ConvertIsDone(chain.b)
    /\ chain.state = "Front" =>
         /\ chain'.state = "Front"
         /\ chain'.b = chain.b
         /\ \A op \in ChainOps : ChainTouches(op, chain) \subseteq {"a"}
         /\ ChainGet(chain) = ConvertGet(chain.a)
         /\ ChainIsDone(chain) = ConvertIsDone(chain.a)

ChainSidesAbsorb == [][ChainSideStep]_vars

\* a Chain that went BothBackward -> Front with an element of a left, and
\* was then called in both directions
ChainFrontKept ==
    /\ chain.state = "Front"
    /\ chainObs.bwd >= Len(chainObs.srcB) + 2
    /\ chainObs.fwd >= 1
    /\ Len(chainObs.srcB) >= 1
    /\ IsSome(ChainGet(chain))

(***************************************************************************)
(* WindowsMut: the remaining region, call by call                          *)
(***************************************************************************)
\* the region after one advance or advance_back on the region slice of a
\* WindowsMut at the given position
WinShrunk(slice, position) ==
    CASE position = "Init" -> slice
      [] slice = <<>> -> <<>>
      [] position = "Front" -> Tail(slice)
      [] position = "Back" -> SubSeq(slice, 1, Len(slice) - 1)

\* C40: the remaining region of a WindowsMut never grows: an advance or
\* advance_back (next / next_back included) removes nothing on the first
\* call and on an empty region, and otherwise exactly one element, from
\* the end the current window was taken from; after it get() is None
\* exactly when fewer than size elements remain; and once get() has been
\* None after a call it is None after every later call.
WinExhaustStep ==
    (IsSome(win) /\ IsSome(win')) =>
      LET w == Unwrap(win)
          w2 == Unwrap(win')
      IN  /\ Len(w2.slice) <= Len(w.slice)
          /\ w2.slice = WinShrunk(w.slice, w.position)
          /\ w2.size = w.size
          /\ w2.position # "Init"
          /\ IsNone(WinGet(w2)) <=> Len(w2.slice) < w2.size
          /\ winObs'.ret = WinGet(w2)
          /\ (w.position # "Init" /\ IsNone(WinGet(w))) => IsNone(WinGet(w2))

WinExhaustionPermanent == [][WinExhaustStep]_vars

\* windows were yielded from both ends, the region ran empty, and at least
\* two more calls were made
WinCalledWhenEmpty ==
    /\ IsSome(win)
    /\ Unwrap(win).slice = <<>>
    /\ winObs.fwdSome >= 1
    /\ winObs.bwdSome >= 1
    /\ winObs.fwd + winObs.bwd >= winObs.fwdSome + winObs.bwdSome + 3
    /\ IsNone(winObs.ret)

====
